---- MODULE Spec2Model ----
(***************************************************************************)
(* Intent-resolution and dispatch core of the voice/text assistant:        *)
(* module registry, prompt builder, LLM client JSON extraction and         *)
(* validation, provider fallbacks and the Backend dispatcher, in its two   *)
(* variants (core/backend.py with conversation_history, backend.py with    *)
(* last_filename).                                                         *)
(*                                                                         *)
(* Text is modelled as a sequence of tokens.  A token is either a run of   *)
(* word characters ([A-Za-z0-9_]), one non-word character, or the fence    *)
(* of three backticks.  A JSON value is a record with the same four fields *)
(* whatever its type, so that any two values can be compared.              *)
(***************************************************************************)
EXTENDS Integers, Sequences, FiniteSets, TLC

(***************************************************************************)
(* Bounds of the model.                                                    *)
(***************************************************************************)
MaxArrayLen == 2
MaxModules == 3

(***************************************************************************)
(* Tokens and Python string helpers.                                       *)
(***************************************************************************)
\* the fence: three backtick characters, one token
FENCE == "<fence>"
QUOTE == "\""
NL == "\n"
SP == " "

NonWordToks == {FENCE, QUOTE, NL, SP, "{", "}", "[", "]", ",", ":", ".", "!"}

Range(q) == {q[i] : i \in 1..Len(q)}

IsSpace(c) == c \in {NL, SP}

IsWord(c) == c \notin NonWordToks

SubText(s, a, b) == [k \in 1..(IF b >= a THEN b - a + 1 ELSE 0) |-> s[a + k - 1]]

RECURSIVE LStrip(_)
LStrip(s) == IF s # <<>> /\ IsSpace(Head(s)) THEN LStrip(Tail(s)) ELSE s

RECURSIVE RStrip(_)
RStrip(s) ==
    IF s # <<>> /\ IsSpace(s[Len(s)]) THEN RStrip(SubText(s, 1, Len(s) - 1)) ELSE s

\* str.strip()
Strip(s) == RStrip(LStrip(s))

\* str.find(c): first index (1-based) of token c, 0 when absent (Python: -1)
Find(s, c) ==
    IF \E i \in 1..Len(s) : s[i] = c
    THEN CHOOSE i \in 1..Len(s) : s[i] = c /\ \A j \in 1..(i - 1) : s[j] # c
    ELSE 0

\* str.rfind(c): last index (1-based) of token c, 0 when absent (Python: -1)
RFind(s, c) ==
    IF \E i \in 1..Len(s) : s[i] = c
    THEN CHOOSE i \in 1..Len(s) : s[i] = c /\ \A j \in (i + 1)..Len(s) : s[j] # c
    ELSE 0

\* str.replace("_", " ")
RECURSIVE ReplaceUnderscore(_)
ReplaceUnderscore(s) ==
    IF s = <<>> THEN <<>>
    ELSE <<(IF Head(s) = "_" THEN SP ELSE Head(s))>> \o ReplaceUnderscore(Tail(s))

(***************************************************************************)
(* JSON values.                                                            *)
(***************************************************************************)
JNull == [t |-> "null", s |-> <<>>, keys |-> <<>>, items |-> <<>>]
JNum(tok) == [t |-> "num", s |-> <<tok>>, keys |-> <<>>, items |-> <<>>]
JStr(text) == [t |-> "str", s |-> text, keys |-> <<>>, items |-> <<>>]
JList(items) == [t |-> "list", s |-> <<>>, keys |-> <<>>, items |-> items]
JDict(keys, items) == [t |-> "dict", s |-> <<>>, keys |-> keys, items |-> items]

IsDict(v) == v.t = "dict"
IsList(v) == v.t = "list"

\* "k in d" for a dict d
HasKey(d, k) == \E i \in 1..Len(d.keys) : d.keys[i] = k

\* d.get(k): the value under k, None (JNull) when absent
DictGet(d, k) ==
    IF HasKey(d, k)
    THEN d.items[CHOOSE i \in 1..Len(d.keys) : d.keys[i] = k]
    ELSE JNull

\* d[k] = v of a Python dict: a repeated key keeps its place and takes the new value
DictSet(d, k, v) ==
    IF HasKey(d, k)
    THEN LET i == CHOOSE j \in 1..Len(d.keys) : d.keys[j] = k
         IN  JDict(d.keys, [d.items EXCEPT ![i] = v])
    ELSE JDict(Append(d.keys, k), Append(d.items, v))

(***************************************************************************)
(* json.loads on a token text: a recursive descent parser.  A result is    *)
(* [ok, v, n]: whether a value was read, the value, and the index of the   *)
(* first token after it.                                                   *)
(***************************************************************************)
PFail == [ok |-> FALSE, v |-> JNull, n |-> 0]
POk(v, n) == [ok |-> TRUE, v |-> v, n |-> n]

RECURSIVE SkipWs(_, _)
SkipWs(s, i) == IF i <= Len(s) /\ IsSpace(s[i]) THEN SkipWs(s, i + 1) ELSE i

IsNumberTok(c) == c \in {"0", "1", "2", "5"}

\* the string literal whose opening quote is at i - 1: tokens up to the closing quote;
\* a raw control character (newline) inside a string is a decode error (strict mode)
RECURSIVE ParseString(_, _, _)
ParseString(s, i, acc) ==
    IF i > Len(s) THEN PFail
    ELSE IF s[i] = QUOTE THEN POk(JStr(acc), i + 1)
    ELSE IF s[i] = NL THEN PFail
    ELSE ParseString(s, i + 1, Append(acc, s[i]))

RECURSIVE ParseValue(_, _)
RECURSIVE ParseItems(_, _, _)
RECURSIVE ParseMembers(_, _, _)

\* the elements of an array after "[" or after a ",": i is at the next element
ParseItems(s, i, acc) ==
    LET r == ParseValue(s, SkipWs(s, i)) IN
    IF ~r.ok THEN PFail
    ELSE LET j == SkipWs(s, r.n) IN
         IF j > Len(s) THEN PFail
         ELSE IF s[j] = "]" THEN POk(JList(Append(acc, r.v)), j + 1)
         ELSE IF s[j] = "," THEN ParseItems(s, j + 1, Append(acc, r.v))
         ELSE PFail

\* the members of an object after "{" or after a ",": i is at the next key
ParseMembers(s, i, acc) ==
    LET k0 == SkipWs(s, i) IN
    IF k0 > Len(s) \/ s[k0] # QUOTE THEN PFail
    ELSE LET k == ParseString(s, k0 + 1, <<>>) IN
         IF ~k.ok THEN PFail
         ELSE LET c == SkipWs(s, k.n) IN
              IF c > Len(s) \/ s[c] # ":" THEN PFail
              ELSE LET r == ParseValue(s, SkipWs(s, c + 1)) IN
                   IF ~r.ok THEN PFail
                   ELSE LET j == SkipWs(s, r.n)
                            d == DictSet(acc, k.v.s, r.v)
                        IN  IF j > Len(s) THEN PFail
                            ELSE IF s[j] = "}" THEN POk(d, j + 1)
                            ELSE IF s[j] = "," THEN ParseMembers(s, j + 1, d)
                            ELSE PFail

ParseValue(s, i) ==
    IF i > Len(s) THEN PFail
    ELSE IF s[i] = QUOTE THEN ParseString(s, i + 1, <<>>)
    ELSE IF s[i] = "null" THEN POk(JNull, i + 1)
    ELSE IF IsNumberTok(s[i]) THEN POk(JNum(s[i]), i + 1)
    ELSE IF s[i] = "[" THEN
        LET j == SkipWs(s, i + 1) IN
        IF j <= Len(s) /\ s[j] = "]" THEN POk(JList(<<>>), j + 1)
        ELSE ParseItems(s, i + 1, <<>>)
    ELSE IF s[i] = "{" THEN
        LET j == SkipWs(s, i + 1) IN
        IF j <= Len(s) /\ s[j] = "}" THEN POk(JDict(<<>>, <<>>), j + 1)
        ELSE ParseMembers(s, i + 1, JDict(<<>>, <<>>))
    ELSE PFail

\* json.loads(s): ok is FALSE for a JSONDecodeError (no value, or extra data after it)
Loads(s) ==
    LET r == ParseValue(s, SkipWs(s, 1)) IN
    IF r.ok /\ SkipWs(s, r.n) = Len(s) + 1 THEN r ELSE PFail

(***************************************************************************)
(* re.search(r"FENCE(?:\w+)?\s*(.*?)\s*FENCE", s, re.DOTALL)               *)
(***************************************************************************)
RECURSIVE SkipWord(_, _)
SkipWord(s, i) == IF i <= Len(s) /\ IsWord(s[i]) THEN SkipWord(s, i + 1) ELSE i

\* the first fence at or after i, 0 when there is none
FenceFrom(s, i) ==
    IF \E j \in i..Len(s) : s[j] = FENCE
    THEN CHOOSE j \in i..Len(s) : s[j] = FENCE /\ \A k \in i..(j - 1) : s[k] # FENCE
    ELSE 0

\* [found, group]: the leftmost fence that a later fence closes; the optional tag and
\* the white space after it are greedy, group(1) is lazy and stops before the white
\* space in front of the closing fence
FenceSearch(s) ==
    LET open == Find(s, FENCE)
        p == SkipWs(s, SkipWord(s, open + 1))
        close == IF open = 0 THEN 0 ELSE FenceFrom(s, p)
    IN  IF open = 0 \/ close = 0
        THEN [found |-> FALSE, group |-> <<>>]
        ELSE [found |-> TRUE, group |-> RStrip(SubText(s, p, close - 1))]

(***************************************************************************)
(* LLMClient._extract_json_from_response (llm/llm_client.py).  The result  *)
(* is the JSON value the method returns (a list, whatever its elements).   *)
(***************************************************************************)
EmptyList == JList(<<>>)

\* Strategy 1: the text that the later strategies parse
FencedGroup(s, m) == IF m.found THEN Strip(m.group) ELSE s

FencedOrStripped(raw) == FencedGroup(Strip(raw), FenceSearch(Strip(raw)))

\* Strategy 3, taken when the direct parse failed
\* the parse r of the text between the brackets: a dict is wrapped, a list is
\* returned, anything else and a failed parse give []
BracketsParsed(r) ==
    IF ~r.ok THEN EmptyList
    ELSE IF IsDict(r.v) THEN JList(<<r.v>>)
    ELSE IF IsList(r.v) THEN r.v
    ELSE EmptyList

\* the parse r of the whole stripped text, tried when there are no brackets
WholeParsed(r) == IF r.ok /\ IsDict(r.v) THEN JList(<<r.v>>) ELSE EmptyList

ExtractBetween(raw, s, first_bracket, last_bracket) ==
    IF first_bracket # 0 /\ last_bracket # 0 /\ last_bracket > first_bracket
    THEN BracketsParsed(Loads(SubText(s, first_bracket, last_bracket)))
    ELSE WholeParsed(Loads(Strip(raw)))

ExtractByBrackets(raw, s) == ExtractBetween(raw, s, Find(s, "["), RFind(s, "]"))

\* Strategy 2: r is the direct parse of s
ExtractDirect(raw, s, r) ==
    IF r.ok
    THEN IF IsDict(r.v) THEN JList(<<r.v>>)
         ELSE IF IsList(r.v) THEN r.v
         ELSE EmptyList
    ELSE ExtractByBrackets(raw, s)

ExtractFrom(raw, s) == ExtractDirect(raw, s, Loads(s))

ExtractJson(raw) == ExtractFrom(raw, FencedOrStripped(raw))

(***************************************************************************)
(* The texts a model can answer with: JSON values written out (json.dumps  *)
(* without white space), bare, fenced, or inside prose.                    *)
(***************************************************************************)
RECURSIVE DumpsItems(_, _)
RECURSIVE DumpsMembers(_, _, _)
RECURSIVE Dumps(_)

DumpsItems(items, i) ==
    IF i > Len(items) THEN <<>>
    ELSE (IF i > 1 THEN <<",">> ELSE <<>>) \o Dumps(items[i]) \o DumpsItems(items, i + 1)

DumpsMembers(keys, items, i) ==
    IF i > Len(keys) THEN <<>>
    ELSE (IF i > 1 THEN <<",">> ELSE <<>>)
         \o <<QUOTE>> \o keys[i] \o <<QUOTE, ":">> \o Dumps(items[i])
         \o DumpsMembers(keys, items, i + 1)

Dumps(v) ==
    CASE v.t = "null" -> <<"null">>
      [] v.t = "num" -> v.s
      [] v.t = "str" -> <<QUOTE>> \o v.s \o <<QUOTE>>
      [] v.t = "list" -> <<"[">> \o DumpsItems(v.items, 1) \o <<"]">>
      [] v.t = "dict" -> <<"{">> \o DumpsMembers(v.keys, v.items, 1) \o <<"}">>

T_action == <<"action">>
T_none == <<"none">>
T_None == <<"None">>
T_create_folder == <<"create", "_", "folder">>
T_create_file == <<"create", "_", "file">>
T_write_file == <<"write", "_", "file">>
T_append_file == <<"append", "_", "file">>
T_read_file == <<"read", "_", "file">>
T_delete_file == <<"delete", "_", "file">>
T_delete_folder == <<"delete", "_", "folder">>
T_list_directory == <<"list", "_", "directory">>
T_rename_file == <<"rename", "_", "file">>
T_copy_file == <<"copy", "_", "file">>
T_move_file == <<"move", "_", "file">>
T_open_application == <<"open", "_", "application">>
T_move_mouse == <<"move", "_", "mouse">>
T_click == <<"click">>
T_type_text == <<"type", "_", "text">>
T_press_key == <<"press", "_", "key">>
T_src == <<"src">>
T_dest == <<"dest">>
T_filename == <<"filename">>
T_content == <<"content">>
T_folder == <<"folder">>
T_directory == <<"directory">>
T_path == <<"path">>
T_x == <<"x">>
T_y == <<"y">>
T_text == <<"text">>
T_key == <<"key">>
T_notes == <<"notes", ".", "txt">>

Obj1(k1, v1) == JDict(<<k1>>, <<v1>>)
Obj2(k1, v1, k2, v2) == JDict(<<k1, k2>>, <<v1, v2>>)
Obj3(k1, v1, k2, v2, k3, v3) == JDict(<<k1, k2, k3>>, <<v1, v2, v3>>)

ObjNone == Obj1(T_action, JStr(T_none))
ObjCreate == Obj2(T_action, JStr(T_create_file), T_filename, JStr(T_notes))
\* a write_file whose content holds a fenced code block: FENCE x[1] FENCE
ObjWriteCode ==
    Obj3(T_action, JStr(T_write_file), T_filename, JStr(T_notes),
         T_content, JStr(<<FENCE, "x", "[", "1", "]", FENCE>>))
\* a write_file whose content holds one fence
ObjWriteFence ==
    Obj3(T_action, JStr(T_write_file), T_filename, JStr(T_notes),
         T_content, JStr(<<FENCE>>))
\* an array-valued field
ObjItems == Obj2(T_action, JStr(<<"foo">>), <<"items">>, JList(<<JNum("1"), JNum("2")>>))
ObjNoAction == Obj1(T_filename, JStr(T_notes))
ObjNullAction == Obj1(T_action, JNull)

ExtractObjects ==
    {ObjNone, ObjCreate, ObjWriteCode, ObjWriteFence, ObjItems, ObjNoAction, ObjNullAction}

ExtractElems == ExtractObjects \cup {JNum("1")}

SeqsUpTo(S, n) == UNION {[1..k -> S] : k \in 0..n}

ExtractArrays == {JList(q) : q \in SeqsUpTo(ExtractElems, MaxArrayLen)}

ExtractValues == ExtractArrays \cup ExtractObjects \cup {JNum("5"), JNull, JStr(T_none)}

Shapes == {"bare", "fenced", "fenced_notag", "prose_fenced", "prose_bare"}

RawOf(shape, v) ==
    CASE shape = "bare" -> Dumps(v)
      [] shape = "fenced" -> <<FENCE, "json", NL>> \o Dumps(v) \o <<NL, FENCE>>
      [] shape = "fenced_notag" -> <<FENCE>> \o Dumps(v) \o <<FENCE>>
      [] shape = "prose_fenced" ->
            <<"Sure", "!", NL, FENCE, "json", NL>> \o Dumps(v) \o <<NL, FENCE, NL, "done">>
      [] shape = "prose_bare" -> <<"Sure", SP>> \o Dumps(v) \o <<SP, "ok">>

\* texts that hold no complete JSON value
Garbage ==
    {<<>>, <<"hello">>, <<"[">>, <<"]", "[">>, <<"{", QUOTE, "action", QUOTE>>,
     <<"[", "hello", "]">>, <<FENCE, "json", NL, "hello", NL, FENCE>>, <<FENCE, "[">>}

(***************************************************************************)
(* Automation modules (modules/base_automation.py): what a module answers  *)
(* to get_description() and get_supported_actions(), and how loading it    *)
(* can fail.  "system" is SystemAutomation with its file actions; the      *)
(* others are modules written against the BaseAutomationModule interface:  *)
(* alpha and beta both declare "foo" and give the same description; gamma  *)
(* declares an action whose details lack "method_name"; delta raises in    *)
(* get_supported_actions; noimport cannot be imported; noinit raises in    *)
(* its constructor.                                                        *)
(***************************************************************************)
T_foo == <<"foo">>
T_bar == <<"bar">>
T_baz == <<"baz">>
T_qux == <<"qux">>

Details(name, method, description, example_json) ==
    [name |-> name, has_method_name |-> TRUE, method_name |-> method,
     description |-> description, example_json |-> example_json]

\* the details a plain module gives for an action
ActionDetails(name, method) ==
    Details(name, method, <<"description of ">> \o name,
            <<"{", QUOTE, "action", QUOTE, ":", QUOTE>> \o name \o <<QUOTE, "}">>)

NoMethodName(d) == [d EXCEPT !.has_method_name = FALSE]

ModuleIds == {"system", "alpha", "beta", "gamma", "delta", "noimport", "noinit"}

ModuleDef(m) ==
    LET base == [description |-> "", import_raises |-> FALSE, init_raises |-> FALSE,
                 actions_raise |-> FALSE, actions |-> <<>>]
    IN CASE m = "system" ->
              [base EXCEPT !.description = "perform system automation tasks such as listing, creating, reading, writing, moving, and deleting files and folders, launching applications, and controlling mouse and keyboard",
                           !.actions =
                              <<Details(T_create_folder, "create_folder",
                                        <<"Creates a new folder at the specified path.">>,
                                        <<"{\"action\":\"create_folder\",\"folder\":\"DIRECTORY\"}">>),
                                Details(T_create_file, "create_file",
                                        <<"Creates a new empty file at the specified path.">>,
                                        <<"{\"action\":\"create_file\",\"filename\":\"DIRECTORY/FILENAME\"}">>),
                                Details(T_write_file, "write_file",
                                        <<"Writes content to a file, creating it if it doesn't exist. This action overwrites existing content.">>,
                                        <<"{\"action\":\"write_file\",\"filename\":\"myfile.txt\",\"content\":\"Hello World\"}">>),
                                Details(T_append_file, "append_file",
                                        <<"Appends content to an existing file. If the file does not exist, it will be created.">>,
                                        <<"{\"action\":\"append_file\",\"filename\":\"mylog.txt\",\"content\":\"New log entry.\"}">>),
                                Details(T_read_file, "read_file",
                                        <<"Reads and returns the text content of a specified file.">>,
                                        <<"{\"action\":\"read_file\",\"filename\":\"my_document.txt\"}">>),
                                Details(T_delete_file, "delete_file",
                                        <<"Deletes a file.">>,
                                        <<"{\"action\":\"delete_file\",\"filename\":\"FILENAME\"}">>),
                                Details(T_delete_folder, "delete_folder",
                                        <<"Deletes a folder and its contents.">>,
                                        <<"{\"action\":\"delete_folder\",\"folder\":\"DIRECTORY\"}">>),
                                Details(T_list_directory, "list_directory",
                                        <<"Lists the contents (files and subfolders) of a specified **directory**.">>,
                                        <<"{\"action\":\"list_directory\",\"directory\":\"my_folder\"}">>),
                                Details(T_rename_file, "rename_file",
                                        <<"Renames a file.">>,
                                        <<"{\"action\":\"rename_file\",\"src\":\"old_name.txt\",\"dest\":\"new_name.txt\"}">>),
                                Details(T_copy_file, "copy_file",
                                        <<"Copies a file from source to destination.">>,
                                        <<"{\"action\":\"copy_file\",\"src\":\"source.txt\",\"dest\":\"destination/copy.txt\"}">>),
                                Details(T_move_file, "move_file",
                                        <<"Moves a file from source to destination.">>,
                                        <<"{\"action\":\"move_file\",\"src\":\"source.txt\",\"dest\":\"destination/moved.txt\"}">>),
                                Details(T_open_application, "open_application",
                                        <<"Opens an application by its full path or common name. On Windows, it tries to find the executable in PATH or uses shell execution.">>,
                                        <<"{\"action\":\"open_application\",\"path\":\"notepad.exe\"}">>),
                                Details(T_move_mouse, "move_mouse",
                                        <<"Moves the mouse cursor to specific X and Y coordinates.">>,
                                        <<"{\"action\":\"move_mouse\",\"x\":100,\"y\":200}">>),
                                Details(T_click, "click",
                                        <<"Performs a mouse click at the current cursor position or specified coordinates.">>,
                                        <<"{\"action\":\"click\"}">>),
                                Details(T_type_text, "type_text",
                                        <<"Types the specified text using the keyboard.">>,
                                        <<"{\"action\":\"type_text\",\"text\":\"Hello World\"}">>),
                                Details(T_press_key, "press_key",
                                        <<"Presses a specific keyboard key (e.g., 'enter', 'esc', 'alt').">>,
                                        <<"{\"action\":\"press_key\",\"key\":\"enter\"}">>)>>]
         [] m = "alpha" ->
              [base EXCEPT !.description = "Manages things.",
                           !.actions = <<ActionDetails(T_foo, "do_foo"),
                                         ActionDetails(T_bar, "do_bar")>>]
         [] m = "beta" ->
              [base EXCEPT !.description = "Manages things.",
                           !.actions = <<ActionDetails(T_baz, "do_baz"),
                                         ActionDetails(T_foo, "other_foo")>>]
         [] m = "gamma" ->
              [base EXCEPT !.description = "Provides gamma data.",
                           !.actions = <<ActionDetails(T_baz, "gamma_baz"),
                                         NoMethodName(ActionDetails(T_qux, "gamma_qux"))>>]
         [] m = "delta" ->
              [base EXCEPT !.description = "Delta services.", !.actions_raise = TRUE]
         [] m = "noimport" ->
              [base EXCEPT !.description = "Never imported.", !.import_raises = TRUE]
         [] m = "noinit" ->
              [base EXCEPT !.description = "Never built.", !.init_raises = TRUE]

\* Python's order on the strings used as sort keys: the place in the sorted list
SortedStrings ==
    <<"Delta services.", "Manages things.", "Never built.", "Never imported.",
      "Provides gamma data.",
      "perform system automation tasks such as listing, creating, reading, writing, moving, and deleting files and folders, launching applications, and controlling mouse and keyboard">>

StrRank(x) == CHOOSE i \in 1..Len(SortedStrings) : SortedStrings[i] = x

SortedNames ==
    <<T_append_file, T_bar, T_baz, T_click, T_copy_file,
      T_create_file, T_create_folder, T_delete_file, T_delete_folder, T_foo,
      T_list_directory, T_move_file, T_move_mouse, T_open_application, T_press_key,
      T_qux, T_read_file, T_rename_file, T_type_text, T_write_file>>

NameRank(x) == CHOOSE i \in 1..Len(SortedNames) : SortedNames[i] = x

\* an insertion that ignores the keys: the sequence stays in arrival order
AppendUnsorted(sorted, x) == Append(sorted, x)

\* sorted(seq, key=...) on a sequence of [key, v] pairs: stable, an element goes
\* after the elements whose key is not greater
RECURSIVE InsertByKey(_, _)
InsertByKey(sorted, x) ==
    IF sorted = <<>> THEN <<x>>
    ELSE IF x.key < Head(sorted).key THEN <<x>> \o sorted
    ELSE <<Head(sorted)>> \o InsertByKey(Tail(sorted), x)

RECURSIVE SortedByKey(_)
SortedByKey(seq) ==
    IF seq = <<>> THEN <<>>
    ELSE InsertByKey(SortedByKey(SubText(seq, 1, Len(seq) - 1)), seq[Len(seq)])

(***************************************************************************)
(* Backend.load_automation_modules and _update_system_parser_with_actions. *)
(* A registry is [modules, map, warnings, errors]: automation_modules,     *)
(* supported_actions_map (action name -> [module, method_name,             *)
(* description, example_json]), and the WARNING / ERROR lines printed      *)
(* while loading.                                                          *)
(***************************************************************************)
EmptyRegistry == [modules |-> <<>>, map |-> <<>>, warnings |-> <<>>, errors |-> <<>>]

MapPut(map, name, entry) ==
    [k \in (DOMAIN map) \cup {name} |-> IF k = name THEN entry ELSE map[k]]

\* lines 49-57: the registration of one action; the entry is written whether or not
\* the name was already bound
RegisterAction(reg, m, d) ==
    [reg EXCEPT
        !.warnings = IF d.name \in DOMAIN reg.map THEN Append(@, d.name) ELSE @,
        !.map = MapPut(@, d.name,
                       [module |-> m, method_name |-> d.method_name,
                        description |-> d.description, example_json |-> d.example_json])]

\* the for loop of lines 49-57 from action i on; a details dict without
\* "method_name" raises KeyError, which ends the loop with what was registered so far
RECURSIVE RegisterFrom(_, _, _, _)
RegisterFrom(reg, m, acts, i) ==
    IF i > Len(acts) THEN [reg |-> reg, raised |-> FALSE]
    ELSE IF ~acts[i].has_method_name
         THEN [reg |-> IF acts[i].name \in DOMAIN reg.map
                       THEN [reg EXCEPT !.warnings = Append(@, acts[i].name)]
                       ELSE reg,
               raised |-> TRUE]
    ELSE RegisterFrom(RegisterAction(reg, m, acts[i]), m, acts, i + 1)

\* lines 38-61: the try block for one module path
LoadModule(reg, m) ==
    LET def == ModuleDef(m)
        failed == [reg EXCEPT !.errors = Append(@, m)]
    IN  IF def.import_raises \/ def.init_raises THEN failed
        ELSE LET appended == [reg EXCEPT !.modules = Append(@, m)] IN
             IF def.actions_raise THEN [appended EXCEPT !.errors = Append(@, m)]
             ELSE LET r == RegisterFrom(appended, m, def.actions, 1) IN
                  IF r.raised THEN [r.reg EXCEPT !.errors = Append(@, m)] ELSE r.reg

RECURSIVE LoadAll(_, _)
LoadAll(reg, paths) ==
    IF paths = <<>> THEN reg ELSE LoadAll(LoadModule(reg, Head(paths)), Tail(paths))

\* one backquote character, as the prompt puts it around an example
TICK == "<tick>"

\* lines 79-87 for one module: its header line and two lines per action (the bullet
\* character of the source is written "*")
RECURSIVE ActionLines(_)
ActionLines(acts) ==
    IF acts = <<>> THEN <<>>
    ELSE << <<"  * **">> \o Head(acts).v.name \o <<"**: ">> \o Head(acts).v.description,
            <<"    Example: ", TICK>> \o Head(acts).v.example_json \o <<TICK>> >>
         \o ActionLines(Tail(acts))

ModuleLines(m) ==
    LET acts == ModuleDef(m).actions
        keyed == [i \in 1..Len(acts) |-> [key |-> NameRank(acts[i].name), v |-> acts[i]]]
    IN  << <<NL, "**Module: ", ModuleDef(m).description, "**">> >>
        \o ActionLines(SortedByKey(keyed))

RECURSIVE PromptLines(_)
PromptLines(sorted_modules) ==
    IF sorted_modules = <<>> THEN <<>>
    ELSE ModuleLines(Head(sorted_modules).v) \o PromptLines(Tail(sorted_modules))

PromptHeader ==
    << <<NL, "--- Currently Available Automation Actions ---">>,
       <<"Each action has a specific JSON format. Here are the details and examples:">> >>

\* the lines that "\n".join puts into all_supported_actions_list_for_llm
ActionPrompt(modules) ==
    LET keyed == [i \in 1..Len(modules) |->
                    [key |-> StrRank(ModuleDef(modules[i]).description), v |-> modules[i]]]
    IN  PromptHeader \o PromptLines(SortedByKey(keyed))

\* get_supported_actions() raises for one of the modules the prompt builder visits
PromptRaises(modules) == \E i \in 1..Len(modules) : ModuleDef(modules[i]).actions_raise

(***************************************************************************)
(* The providers' parse_intents.  What came back from the model's API is   *)
(* [kind, text]: "error" (the request raised or the status was an error),  *)
(* "shape" (the response had an unexpected shape), "null" (the content     *)
(* field is None) or "text".  A result is the value returned to            *)
(* process_command.                                                        *)
(***************************************************************************)
LlmError == [kind |-> "error", text |-> <<>>]
LlmShape == [kind |-> "shape", text |-> <<>>]
LlmNull == [kind |-> "null", text |-> <<>>]
LlmText(raw) == [kind |-> "text", text |-> raw]

\* the call of parse_intents itself raises. Every client catches the exceptions of
\* its request and prints them in its handler, print(f"ERROR: ... {e}"); when the
\* request fails with a message that sys.stdout cannot encode (a console or a
\* redirected output in ascii or cp1252, a message with other characters), that print
\* raises UnicodeEncodeError inside the handler and the exception leaves parse_intents
LlmRaise == [kind |-> "raise", text |-> <<>>]

T_clarify == <<"clarify">>
T_clarify_file == <<"clarify", "_", "file">>
T_prompt == <<"prompt">>

FallbackNone == JList(<<Obj1(T_action, JStr(T_none))>>)
FallbackCapitalNone == JList(<<Obj1(T_action, JStr(T_None))>>)
Clarify(prompt) == JList(<<Obj2(T_action, JStr(T_clarify), T_prompt, JStr(<<prompt>>))>>)

ClarifyParse == Clarify("Sorry, I couldn't parse the model's response. Can you rephrase?")
ClarifyIssue == Clarify("Sorry, I had an issue understanding that command.")
ClarifyConnectAwan == Clarify("Sorry, I'm having trouble connecting to the Awan LLM service.")
ClarifyConnectNovita == Clarify("Sorry, I'm having trouble connecting to the Novita AI LLM service.")
ClarifyScaleway == Clarify("Sorry, I'm having trouble with the Scaleway LLM service for intent parsing: <error>")
ClarifyFormat == Clarify("Sorry, the model's response was not in the expected format.")
ClarifyNoAction == Clarify("Sorry, I couldn't determine a valid action from your request. Can you rephrase?")

\* LLMClient._validate_intents_schema: TRUE when it returns, FALSE when it raises
ValidateIntentsSchema(intents) ==
    /\ IsList(intents)
    /\ \A i \in 1..Len(intents.items) :
          IsDict(intents.items[i]) /\ HasKey(intents.items[i], T_action)

\* llm/providers/gemini_llm.py
GeminiValidated(intents) == IF ValidateIntentsSchema(intents) THEN intents ELSE FallbackNone

GeminiParseIntents(reply) ==
    IF reply.kind \in {"error", "shape"} THEN FallbackNone
    ELSE GeminiValidated(ExtractJson(Strip(reply.text)))

\* llm/providers/awan_llm.py
AwanValidated(parsed_json) ==
    IF parsed_json.items = <<>> THEN FallbackNone
    ELSE IF ValidateIntentsSchema(parsed_json) THEN parsed_json
    ELSE FallbackCapitalNone

AwanParseIntents(reply) ==
    IF reply.kind # "text" THEN FallbackCapitalNone
    ELSE AwanValidated(ExtractJson(reply.text))

\* llm/providers/novita_llm.py
\* line 63: only parsed_json[0] is looked at
NovitaChecked(parsed_json) ==
    IF \/ parsed_json.items = <<>>
       \/ ~IsDict(parsed_json.items[1])
       \/ DictGet(parsed_json.items[1], T_action) = JNull
    THEN FallbackCapitalNone
    ELSE parsed_json

NovitaParseIntents(reply) ==
    IF reply.kind # "text" THEN FallbackCapitalNone
    ELSE NovitaChecked(ExtractJson(reply.text))

\* the extraction shared by the providers of src/providers: the fenced group or the
\* stripped text, cut to the outermost brackets when there are any, then json.loads
LegacySlice(s, first_bracket, last_bracket) ==
    IF first_bracket # 0 /\ last_bracket # 0 /\ last_bracket > first_bracket
    THEN SubText(s, first_bracket, last_bracket)
    ELSE s

LegacyRefined(s) == LegacySlice(s, Find(s, "["), RFind(s, "]"))

LegacyLoads(raw) == Loads(LegacyRefined(FencedOrStripped(raw)))

\* providers/gemini_llm.py, providers/awan_llm.py, providers/scaleway_llm.py: the
\* parsed value is returned as it is
LegacyParsed(r, on_decode) == IF r.ok THEN r.v ELSE on_decode

LegacyParseIntents(reply, on_error, on_decode, on_other) ==
    IF reply.kind = "error" THEN on_error
    ELSE IF reply.kind \in {"shape", "null"} THEN on_other
    ELSE LegacyParsed(LegacyLoads(reply.text), on_decode)

\* providers/huggingface_llm.py lines 82-96: r is what json.loads gave
HuggingFaceChecked(r) ==
    IF ~r.ok THEN ClarifyParse
    ELSE IF ~IsDict(r.v) /\ ~IsList(r.v) THEN ClarifyFormat
    ELSE LET parsed_json == IF IsDict(r.v) THEN JList(<<r.v>>) ELSE r.v IN
         IF \/ parsed_json.items = <<>>
            \/ ~IsDict(parsed_json.items[1])
            \/ DictGet(parsed_json.items[1], T_action) = JNull
         THEN ClarifyNoAction
         ELSE parsed_json

\* providers/huggingface_llm.py
HuggingFaceParseIntents(reply) ==
    IF reply.kind = "error" THEN ClarifyConnectNovita
    ELSE IF reply.kind \in {"shape", "null"} THEN ClarifyIssue
    ELSE HuggingFaceChecked(LegacyLoads(reply.text))

CoreProviders == {"gemini", "awan", "novita"}
LegacyProviders == {"gemini_old", "awan_old", "scaleway", "huggingface"}
Providers == CoreProviders \cup LegacyProviders

\* parse_intents of llm/llm_client.py and of llm_client.py: the configured client's
ParseIntents(p, reply) ==
    CASE p = "gemini" -> GeminiParseIntents(reply)
      [] p = "awan" -> AwanParseIntents(reply)
      [] p = "novita" -> NovitaParseIntents(reply)
      [] p = "gemini_old" -> LegacyParseIntents(reply, ClarifyIssue, ClarifyParse, ClarifyIssue)
      [] p = "awan_old" -> LegacyParseIntents(reply, ClarifyConnectAwan, ClarifyParse, ClarifyIssue)
      [] p = "scaleway" -> LegacyParseIntents(reply, ClarifyScaleway, ClarifyScaleway, ClarifyScaleway)
      [] p = "huggingface" -> HuggingFaceParseIntents(reply)

(***************************************************************************)
(* Module methods.  SystemAutomation's methods are wrapped by safe_action; *)
(* its file methods act on fs, the working directory: a set of entries     *)
(* [name, kind, content, children], one per name, a file with its text or  *)
(* a folder with the files in it.  Names are plain names in the working    *)
(* directory, and the empty name is the working directory itself           *)
(* (Path('') is Path('.')).  alpha and beta are plain modules:             *)
(* do_foo(self, target) and do_bar(self) of alpha and                      *)
(* other_foo(self, **kwargs) of beta are not wrapped, and beta declares    *)
(* do_baz without defining it.                                             *)
(***************************************************************************)
T_target == <<"target">>

Signature(required, optional, varkw, safe) ==
    [exists |-> TRUE, required |-> required, optional |-> optional, varkw |-> varkw,
     safe |-> safe]

NoSuchMethod ==
    [exists |-> FALSE, required |-> {}, optional |-> {}, varkw |-> FALSE, safe |-> FALSE]

MethodOf(m, method_name) ==
    CASE m = "system" /\ method_name \in {"create_folder", "delete_folder"} ->
              Signature({T_folder}, {}, FALSE, TRUE)
      [] m = "system" /\ method_name \in {"create_file", "read_file", "delete_file"} ->
              Signature({T_filename}, {}, FALSE, TRUE)
      [] m = "system" /\ method_name \in {"write_file", "append_file"} ->
              Signature({T_filename, T_content}, {}, FALSE, TRUE)
      [] m = "system" /\ method_name = "list_directory" ->
              Signature({T_directory}, {}, FALSE, TRUE)
      [] m = "system" /\ method_name \in {"rename_file", "copy_file", "move_file"} ->
              Signature({T_src, T_dest}, {}, FALSE, TRUE)
      [] m = "system" /\ method_name = "open_application" ->
              Signature({T_path}, {}, FALSE, TRUE)
      [] m = "system" /\ method_name = "move_mouse" -> Signature({T_x, T_y}, {}, FALSE, TRUE)
      [] m = "system" /\ method_name = "click" -> Signature({}, {T_x, T_y}, FALSE, TRUE)
      [] m = "system" /\ method_name = "type_text" -> Signature({T_text}, {}, FALSE, TRUE)
      [] m = "system" /\ method_name = "press_key" -> Signature({T_key}, {}, FALSE, TRUE)
      [] m = "alpha" /\ method_name = "do_foo" -> Signature({T_target}, {}, FALSE, FALSE)
      [] m = "alpha" /\ method_name = "do_bar" -> Signature({}, {}, FALSE, FALSE)
      [] m = "beta" /\ method_name = "other_foo" -> Signature({}, {}, TRUE, FALSE)
      [] OTHER -> NoSuchMethod

\* Python binds **kwargs to the parameters: every required name given, no name that
\* is not a parameter
BindsTo(sig, kwargs) ==
    /\ sig.required \subseteq Range(kwargs.keys)
    /\ sig.varkw \/ Range(kwargs.keys) \subseteq (sig.required \cup sig.optional)

IsStr(v) == v.t = "str"

\* Python truth of a JSON value
Truthy(v) ==
    CASE v.t = "null" -> FALSE
      [] v.t = "num" -> v.s # <<"0">>
      [] v.t = "str" -> v.s # <<>>
      [] v.t = "list" -> v.items # <<>>
      [] v.t = "dict" -> v.keys # <<>>

\* repr() of a value that json.loads gave; a text has no apostrophe or backslash in it
RECURSIVE ReprItems(_, _)
RECURSIVE ReprMembers(_, _, _)
RECURSIVE Repr(_)

ReprText(s) == [i \in 1..Len(s) |-> IF s[i] = NL THEN "\\n" ELSE s[i]]

ReprItems(items, i) ==
    IF i > Len(items) THEN <<>>
    ELSE (IF i > 1 THEN <<",", SP>> ELSE <<>>) \o Repr(items[i]) \o ReprItems(items, i + 1)

ReprMembers(keys, items, i) ==
    IF i > Len(keys) THEN <<>>
    ELSE (IF i > 1 THEN <<",", SP>> ELSE <<>>)
         \o <<"'">> \o ReprText(keys[i]) \o <<"'", ":", SP>> \o Repr(items[i])
         \o ReprMembers(keys, items, i + 1)

Repr(v) ==
    CASE v.t = "null" -> <<"None">>
      [] v.t = "num" -> v.s
      [] v.t = "str" -> <<"'">> \o ReprText(v.s) \o <<"'">>
      [] v.t = "list" -> <<"[">> \o ReprItems(v.items, 1) \o <<"]">>
      [] v.t = "dict" -> <<"{">> \o ReprMembers(v.keys, v.items, 1) \o <<"}">>

\* a value inside an f-string
Format(v) == IF IsStr(v) THEN v.s ELSE Repr(v)

\* the entries of the working directory
FileEntry(name, content) == [name |-> name, kind |-> "file", content |-> content, children |-> {}]
FolderEntry(name, children) == [name |-> name, kind |-> "dir", content |-> <<>>, children |-> children]
Child(name, content) == [name |-> name, content |-> content]

\* Path(name).exists(), .is_file(), .is_dir()
PathExists(files, name) == name = <<>> \/ \E e \in files : e.name = name
PathIsFile(files, name) == \E e \in files : e.name = name /\ e.kind = "file"
PathIsDir(files, name) == name = <<>> \/ \E e \in files : e.name = name /\ e.kind = "dir"

EntryAt(files, name) == CHOOSE e \in files : e.name = name
Without(files, name) == {e \in files : e.name # name}
WithEntry(files, e) == Without(files, e.name) \cup {e}
Renamed(e, name) == [e EXCEPT !.name = name]

\* what the text of a file is after open(filename, mode) and f.write(text)
Opened(files, name, mode) ==
    IF mode = "a" /\ PathIsFile(files, name) THEN EntryAt(files, name).content ELSE <<>>

\* os.rename(src, dest) on names of the working directory: a file replaces a file, a
\* folder replaces an empty folder, and nothing else that is there is replaced
RenameRefused(files, src, dest) ==
    \/ src = <<>> \/ dest = <<>>
    \/ ~PathExists(files, src)
    \/ /\ src # dest
       /\ PathExists(files, dest)
       /\ \/ PathIsFile(files, src) /\ PathIsDir(files, dest)
          \/ PathIsDir(files, src) /\ PathIsFile(files, dest)
          \/ PathIsDir(files, src) /\ EntryAt(files, dest).children # {}

Rename(files, src, dest) ==
    IF src = dest THEN files
    ELSE WithEntry(Without(files, src), Renamed(EntryAt(files, src), dest))

\* shutil.copy2(src, dest): into the folder when dest is a folder
CopyRefused(files, src, dest) ==
    src = <<>> \/ dest = <<>> \/ ~PathIsFile(files, src) \/ src = dest

\* the directory after dest, or src's name inside the folder dest, was opened for
\* writing and text was written to it
CopiedTo(files, src, dest, text) ==
    IF PathIsDir(files, dest)
    THEN WithEntry(files,
                   FolderEntry(dest, {c \in EntryAt(files, dest).children : c.name # src}
                                        \cup {Child(src, text)}))
    ELSE WithEntry(files, FileEntry(dest, text))

Copy2(files, src, dest) == CopiedTo(files, src, dest, EntryAt(files, src).content)

\* shutil.copy2 takes a number for a file descriptor: 0, 1 and 2 are the standard
\* streams of the process, and what a descriptor holds is the environment's
StandardStreams == {"0", "1", "2"}
FD_DATA == "<data>"

\* one enumeration of the names of a set, from which the orders are counted
Enumerated(S) == CHOOSE q \in [1..Cardinality(S) -> S] : Range(q) = S

\* os.listdir gives the names in an order of the file system's choosing. The
\* environment of list_directory is the number of that order; every order of a
\* directory of up to MaxListed names has a number
MaxListed == 3

RECURSIVE Factorial(_)
Factorial(n) == IF n <= 1 THEN 1 ELSE n * Factorial(n - 1)

ListingOrders == {ToString(k) : k \in 1..Factorial(MaxListed)}
OrderNumber(env) == CHOOSE k \in 1..Factorial(MaxListed) : ToString(k) = env

\* the sequence q without its element at i
Removed(q, i) == SubSeq(q, 1, i - 1) \o SubSeq(q, i + 1, Len(q))

\* the order number k of the names q, counted from 0
RECURSIVE Permuted(_, _)
Permuted(q, k) ==
    IF q = <<>> THEN <<>>
    ELSE LET f == Factorial(Len(q) - 1)
             i == ((k \div f) % Len(q)) + 1
         IN  <<q[i]>> \o Permuted(Removed(q, i), k % f)

RECURSIVE JoinLines(_)
JoinLines(lines) ==
    IF lines = <<>> THEN <<>>
    ELSE IF Len(lines) = 1 THEN lines[1]
    ELSE lines[1] \o <<NL>> \o JoinLines(Tail(lines))

Listing(files, directory, env) ==
    LET names == Enumerated({c.name : c \in EntryAt(files, directory).children})
    IN  IF names = <<>> THEN <<"<empty>">>
        ELSE JoinLines(Permuted(names, OrderNumber(env) - 1))

\* str(e) of an exception of the operating system, and the path shutil.which found
ERROR_TEXT == "<error>"
FOUND_PATH == "<found_path>"

Returned(text, files) == [kind |-> "ok", result |-> text, fs |-> files]
Raised(kind, files) == [kind |-> kind, result |-> <<>>, fs |-> files]

\* the words the backend looks for in a result (backend.py lines 163-167). A text is
\* cut into tokens at these words wherever it holds them: in the results of the
\* methods and in the names of files
FILE_CREATED == <<"File", SP, "created">>
FILE_WRITTEN == <<"File", SP, "written">>
FILE_DELETED == <<"File", SP, "deleted">>

\* the bodies of the file methods; env is what the environment does to the call:
\* "ok", or for list_directory the number of the order os.listdir gives the names
\* in; "fail" (the operating system refuses what the call would otherwise do, the
\* opening of a file included); "write_refused" (files are opened, and no data can be
\* written to them: a full disk, a size limit); and for copy_file "descriptor" (the
\* number given as src is an open descriptor with data to read). With "ok" the
\* standard streams are open and have no data to read, and no other descriptor is
\* open.
FileMethodBody(method_name, kwargs, files, env) ==
    LET filename == DictGet(kwargs, T_filename)
        content == DictGet(kwargs, T_content)
        folder == DictGet(kwargs, T_folder)
        directory == DictGet(kwargs, T_directory)
        src == DictGet(kwargs, T_src)
        dest == DictGet(kwargs, T_dest)
    IN  CASE method_name = "create_folder" ->
               IF ~IsStr(folder) THEN Raised("TypeError", files)
               ELSE IF PathExists(files, folder.s)
                    THEN Returned(<<"Folder already exists: ">> \o folder.s, files)
               ELSE IF env # "ok" THEN Raised("Exception", files)
               ELSE Returned(<<"Folder created: ">> \o folder.s,
                             WithEntry(files, FolderEntry(folder.s, {})))
          [] method_name = "create_file" ->
               IF ~IsStr(filename) THEN Raised("TypeError", files)
               ELSE IF PathExists(files, filename.s)
                    THEN Returned(<<"File already exists: ">> \o filename.s, files)
               ELSE IF env # "ok" THEN Raised("Exception", files)
               ELSE Returned(FILE_CREATED \o <<": ">> \o filename.s,
                             WithEntry(files, FileEntry(filename.s, <<>>)))
          [] method_name \in {"write_file", "append_file"} ->
               LET mode == IF method_name = "write_file" THEN "w" ELSE "a" IN
               IF ~IsStr(filename) THEN Raised("TypeError", files)
               ELSE IF PathIsDir(files, filename.s) \/ env = "fail"
                    THEN Raised("Exception", files)
               ELSE IF Truthy(content) /\ ~IsStr(content)
                    THEN Raised("TypeError",
                                WithEntry(files, FileEntry(filename.s,
                                                           Opened(files, filename.s, mode))))
               ELSE IF env = "write_refused" /\ Truthy(content)
                    THEN Raised("Exception",
                                WithEntry(files, FileEntry(filename.s,
                                                           Opened(files, filename.s, mode))))
               ELSE Returned((IF mode = "w" THEN FILE_WRITTEN \o <<": ">>
                              ELSE <<"Content appended to file: ">>) \o filename.s,
                             WithEntry(files,
                                       FileEntry(filename.s,
                                                 Opened(files, filename.s, mode)
                                                    \o (IF Truthy(content) THEN content.s
                                                        ELSE <<>>))))
          [] method_name = "read_file" ->
               IF ~IsStr(filename) THEN Raised("TypeError", files)
               ELSE IF ~PathExists(files, filename.s)
                    THEN Returned(<<"Error: File '">> \o filename.s
                                     \o <<"' does not exist.">>, files)
               ELSE IF ~PathIsFile(files, filename.s)
                    THEN Returned(<<"Error: Path '">> \o filename.s
                                     \o <<"' is not a file. Please specify a file to read its contents.">>,
                                  files)
               ELSE IF env # "ok"
                    THEN Returned(<<"Error reading file '">> \o filename.s
                                     \o <<"': ", ERROR_TEXT>>, files)
               ELSE Returned(<<"Content of '">> \o filename.s \o <<"':", NL, "---", NL>>
                                \o EntryAt(files, filename.s).content \o <<NL, "---">>,
                             files)
          [] method_name = "delete_file" ->
               IF ~IsStr(filename) THEN Raised("TypeError", files)
               ELSE IF ~PathIsFile(files, filename.s) \/ env # "ok"
                    THEN Raised("Exception", files)
               ELSE Returned(FILE_DELETED \o <<": ">> \o filename.s,
                             Without(files, filename.s))
          [] method_name = "delete_folder" ->
               IF ~IsStr(folder) \/ folder.s = <<>> \/ ~PathIsDir(files, folder.s)
                  \/ env # "ok"
               THEN Returned(<<"Error deleting folder '">> \o Format(folder)
                                \o <<"': ", ERROR_TEXT>>, files)
               ELSE Returned(<<"Folder deleted: ">> \o folder.s, Without(files, folder.s))
          [] method_name = "list_directory" ->
               IF ~IsStr(directory) THEN Raised("TypeError", files)
               ELSE IF ~PathExists(files, directory.s)
                    THEN Returned(<<"Error: Directory '">> \o directory.s
                                     \o <<"' does not exist.">>, files)
               ELSE IF ~PathIsDir(files, directory.s)
                    THEN Returned(<<"Error: Path '">> \o directory.s
                                     \o <<"' is not a directory. Please specify a folder to list its contents.">>,
                                  files)
               ELSE IF directory.s = <<>> \/ env = "fail" THEN Raised("Exception", files)
               ELSE Returned(Listing(files, directory.s, env), files)
          [] method_name \in {"rename_file", "move_file"} ->
               IF ~IsStr(src) \/ ~IsStr(dest) THEN Raised("TypeError", files)
               ELSE IF RenameRefused(files, src.s, dest.s) \/ env # "ok"
                    THEN Raised("Exception", files)
               ELSE Returned((IF method_name = "rename_file" THEN <<"File renamed: ">>
                              ELSE <<"File moved: ">>) \o src.s \o <<" -> ">> \o dest.s,
                             Rename(files, src.s, dest.s))
          [] method_name = "copy_file" ->
               IF ~IsStr(dest) THEN Raised("TypeError", files)
               ELSE IF src.t = "num"
                    THEN (IF dest.s # <<>> /\ PathIsDir(files, dest.s)
                          THEN Raised("TypeError", files)
                          ELSE IF dest.s = <<>> \/ env = "fail"
                                  \/ (env # "descriptor" /\ src.s[1] \notin StandardStreams)
                               THEN Raised("Exception", files)
                          ELSE Raised("Exception",
                                      WithEntry(files,
                                                FileEntry(dest.s,
                                                          IF env = "descriptor"
                                                          THEN <<FD_DATA>> ELSE <<>>))))
               ELSE IF ~IsStr(src) THEN Raised("TypeError", files)
               ELSE IF CopyRefused(files, src.s, dest.s) \/ env = "fail"
                    THEN Raised("Exception", files)
               ELSE IF env = "write_refused" /\ EntryAt(files, src.s).content # <<>>
                    THEN Raised("Exception", CopiedTo(files, src.s, dest.s, <<>>))
               ELSE Returned(<<"File copied: ">> \o src.s \o <<" -> ">> \o dest.s,
                             Copy2(files, src.s, dest.s))

\* open_application and the mouse and keyboard methods; for open_application env
\* tells whether shutil.which found the program ("ok", "fail") or not ("shell_ok",
\* "shell_fail") and whether os.startfile then raised; for the others whether
\* pyautogui raised
DeviceMethodBody(method_name, kwargs, files, env) ==
    LET path == DictGet(kwargs, T_path) IN
    CASE method_name = "open_application" ->
           IF ~IsStr(path) THEN Raised("TypeError", files)
           ELSE (CASE env = "ok" -> Returned(<<"Launched application: ", FOUND_PATH>>, files)
                  [] env = "fail" ->
                       Returned(<<"Error launching '", FOUND_PATH, "' via os.startfile: ",
                                  ERROR_TEXT>>, files)
                  [] env = "shell_ok" ->
                       Returned(<<"Attempted to launch application: ">> \o path.s
                                   \o <<" (Windows shell lookup)">>, files)
                  [] env = "shell_fail" ->
                       Returned(<<"Could not find or launch application '">> \o path.s
                                   \o <<"'. Please provide a full path or ensure it's in your system's PATH or a well-known Windows application. Error: ",
                                        ERROR_TEXT>>, files))
      [] env # "ok" -> Raised("Exception", files)
      [] method_name = "move_mouse" ->
           Returned(<<"Mouse moved to (">> \o Format(DictGet(kwargs, T_x)) \o <<",", SP>>
                       \o Format(DictGet(kwargs, T_y)) \o <<")">>, files)
      [] method_name = "click" -> Returned(<<"Mouse click executed">>, files)
      [] method_name = "type_text" ->
           Returned(<<"Typed text: ">> \o Format(DictGet(kwargs, T_text)), files)
      [] method_name = "press_key" ->
           Returned(<<"Key pressed: ">> \o Format(DictGet(kwargs, T_key)), files)

\* the bodies of alpha's and beta's methods: env "fail" is an Exception raised from
\* inside, "type_error" a TypeError raised from inside
PlainMethodBody(method_name, kwargs, files, env) ==
    IF env = "fail" THEN Raised("Exception", files)
    ELSE IF env = "type_error" THEN Raised("TypeError", files)
    ELSE CASE method_name = "do_foo" -> Returned(<<"foo done">>, files)
           [] method_name = "do_bar" -> Returned(<<"bar done">>, files)
           [] method_name = "other_foo" -> Returned(<<"other foo done">>, files)

DeviceMethods == {"open_application", "move_mouse", "click", "type_text", "press_key"}

MethodBody(m, method_name, kwargs, files, env) ==
    IF m # "system" THEN PlainMethodBody(method_name, kwargs, files, env)
    ELSE IF method_name \in DeviceMethods
         THEN DeviceMethodBody(method_name, kwargs, files, env)
    ELSE FileMethodBody(method_name, kwargs, files, env)

\* what the environment can do to a call
EnvChoices(m, method_name) ==
    IF m # "system" THEN {"ok", "fail", "type_error"}
    ELSE IF method_name = "open_application" THEN {"ok", "fail", "shell_ok", "shell_fail"}
    ELSE IF method_name = "list_directory" THEN ListingOrders \cup {"fail"}
    ELSE IF method_name \in {"write_file", "append_file"} THEN {"ok", "fail", "write_refused"}
    ELSE IF method_name = "copy_file" THEN {"ok", "fail", "write_refused", "descriptor"}
    ELSE {"ok", "fail"}

\* the name of a method with "_" replaced by " ", as safe_action prints it
MethodWords(method_name) ==
    CASE method_name = "create_folder" -> <<"create", SP, "folder">>
      [] method_name = "create_file" -> <<"create", SP, "file">>
      [] method_name = "write_file" -> <<"write", SP, "file">>
      [] method_name = "append_file" -> <<"append", SP, "file">>
      [] method_name = "read_file" -> <<"read", SP, "file">>
      [] method_name = "delete_file" -> <<"delete", SP, "file">>
      [] method_name = "delete_folder" -> <<"delete", SP, "folder">>
      [] method_name = "list_directory" -> <<"list", SP, "directory">>
      [] method_name = "rename_file" -> <<"rename", SP, "file">>
      [] method_name = "copy_file" -> <<"copy", SP, "file">>
      [] method_name = "move_file" -> <<"move", SP, "file">>
      [] method_name = "open_application" -> <<"open", SP, "application">>
      [] method_name = "move_mouse" -> <<"move", SP, "mouse">>
      [] method_name = "click" -> <<"click">>
      [] method_name = "type_text" -> <<"type", SP, "text">>
      [] method_name = "press_key" -> <<"press", SP, "key">>

\* safe_action: any exception of the wrapped call, the binding of its arguments
\* included, becomes the returned "[FAIL]" text
SafeAction(method_name, bound, out) ==
    IF bound /\ out.kind = "ok" THEN out
    ELSE Returned(<<"[FAIL] Failed to ">> \o MethodWords(method_name) \o <<".">>,
                  out.fs)

\* getattr(module_instance, method_name)(**kwargs) as the dispatcher sees it: kind
\* "ok" with the returned text, or the class of the exception that reaches it; ran
\* tells whether the method's body was entered, body how the body itself ended
CallMethod(m, method_name, kwargs, files, env) ==
    LET sig == MethodOf(m, method_name)
        bound == BindsTo(sig, kwargs)
        body == IF bound THEN MethodBody(m, method_name, kwargs, files, env)
                ELSE Raised("TypeError", files)
        out == IF ~sig.exists THEN Raised("Exception", files)
               ELSE IF sig.safe THEN SafeAction(method_name, bound, body)
               ELSE body
    IN  [kind |-> out.kind, result |-> out.result, fs |-> out.fs,
         ran |-> sig.exists /\ bound,
         body |-> IF sig.exists /\ bound THEN body.kind ELSE "none"]

(***************************************************************************)
(* State.                                                                  *)
(***************************************************************************)
VARIABLES
    enabled_modules,                     \* Config.ENABLED_MODULES
    phase,                               \* "loading", "ready", "raised": Backend.__init__
    load_index,                          \* the module paths already visited
    automation_modules,                  \* Backend.automation_modules
    supported_actions_map,               \* Backend.supported_actions_map
    all_supported_actions_list_for_llm,  \* the action prompt
    warnings,                            \* duplicate-action warnings printed
    load_errors,                         \* modules whose load printed an ERROR
    exShape, exVal, exRaw, exOut, exDone, \* one call of _extract_json_from_response
    provider,                            \* Config.LLM_PROVIDER; the legacy providers run
                                         \* under backend.py, the others under core/backend.py
    conversation_history,                \* Backend.conversation_history (core)
    last_filename,                       \* Backend.last_filename (legacy)
    fs,                                  \* the entries of the working directory
    pc,                                  \* process_command: "idle", "parsing", "popping",
                                         \* "loop", "chatting", "returned", "raised"
    turn,                                \* the calls of process_command so far
    history_before,                      \* conversation_history as the call found it
    user_text, llm_reply,                \* the argument, and what the model's API gave
    intents, idx,                        \* the parsed intents and the for loop's position
    results, action_executed, response,  \* locals, and the value returned
    calls,                               \* the module methods called in this turn
    chat_calls,                          \* the calls of generate_response in this turn
    tts_queue,                           \* TTSModule.queue: the items put and not yet taken
    tts_unfinished,                      \* the queue's count of unfinished tasks
    tts_enqueued,                        \* every put so far, in order, with its caller
    tts_pc,                              \* the worker thread's position in _process_queue
    tts_text,                            \* the worker's local variable text
    tts_pending,                         \* the engine's utterances queued by say()
    tts_spoken,                          \* the utterances the engine has spoken
    tts_ready,                           \* TTSModule._engine_ready_event: set or not
    tts_ctor,                            \* the position of the thread that runs __init__
    gui_listening,                       \* AssistantGUI.is_listening
    gui_input,                           \* text_input is enabled
    gui_button,                          \* listen_button is enabled
    gui_threads,                         \* the worker threads started so far, in order
    gui_reenable,                        \* reenable_input signals queued for the GUI thread
    gui_history,                         \* backend.conversation_history: role and thread
    gui_open,                            \* the window has not been closed
    gui_pc                               \* the GUI thread: "idle" in the event loop, or
                                         \* the statement of a handler it runs next

loadVars ==
    <<enabled_modules, phase, load_index, automation_modules, supported_actions_map,
      all_supported_actions_list_for_llm, warnings, load_errors>>

extractVars == <<exShape, exVal, exRaw, exOut, exDone>>

turnVars ==
    <<provider, conversation_history, last_filename, fs, pc, turn, history_before, user_text, llm_reply,
      intents, idx, results, action_executed, response, calls, chat_calls>>

ttsVars ==
    <<tts_queue, tts_unfinished, tts_enqueued, tts_pc, tts_text, tts_pending, tts_spoken,
      tts_ready, tts_ctor>>

guiVars ==
    <<gui_listening, gui_input, gui_button, gui_threads, gui_reenable, gui_history, gui_open,
      gui_pc>>

vars == <<loadVars, extractVars, turnVars, ttsVars, guiVars>>

Registry ==
    [modules |-> automation_modules, map |-> supported_actions_map,
     warnings |-> warnings, errors |-> load_errors]

SetRegistry(reg) ==
    /\ automation_modules' = reg.modules
    /\ supported_actions_map' = reg.map
    /\ warnings' = reg.warnings
    /\ load_errors' = reg.errors

\* the locals of process_command before a call, and its observers
TurnLocalsIdle ==
    /\ pc = "idle"
    /\ turn = 0
    /\ history_before = <<>>
    /\ user_text = <<>>
    /\ llm_reply = LlmError
    /\ intents = JNull
    /\ idx = 0
    /\ results = <<>>
    /\ action_executed = FALSE
    /\ response = JNull
    /\ calls = <<>>
    /\ chat_calls = <<>>

\* no call of process_command is modelled
TurnIdle ==
    /\ provider = "gemini"
    /\ conversation_history = <<>>
    /\ last_filename = JNull
    /\ fs = {}
    /\ TurnLocalsIdle

\* no TTSModule is constructed
TtsIdle ==
    /\ tts_queue = <<>>
    /\ tts_unfinished = 0
    /\ tts_enqueued = <<>>
    /\ tts_pc = "off"
    /\ tts_text = JNull
    /\ tts_pending = <<>>
    /\ tts_spoken = <<>>
    /\ tts_ready = FALSE
    /\ tts_ctor = "off"

\* no window is modelled
GuiIdle ==
    /\ gui_listening = FALSE
    /\ gui_input = FALSE
    /\ gui_button = FALSE
    /\ gui_threads = <<>>
    /\ gui_reenable = 0
    /\ gui_history = <<>>
    /\ gui_open = FALSE
    /\ gui_pc = "idle"

\* no call of the extractor is modelled
ExtractIdle ==
    /\ exShape = "none"
    /\ exVal = JNull
    /\ exRaw = <<>>
    /\ exOut = JNull
    /\ exDone = FALSE

(***************************************************************************)
(* Backend.process_command, of core/backend.py for the core providers and  *)
(* of backend.py for the legacy ones.  The providers' parse_intents catch  *)
(* every Exception of the request; the except branch around the call is    *)
(* taken when the print in a provider's own handler raises (LlmRaise).     *)
(***************************************************************************)
Legacy == provider \in LegacyProviders

Message(role, content) == [role |-> role, content |-> content]

Iterable(v) == v.t \in {"list", "dict", "str"}

\* what "for it in intents" visits: the items of a list, the keys of a dict, the
\* characters of a string
IterItems(v) ==
    CASE v.t = "list" -> v.items
      [] v.t = "dict" -> [i \in 1..Len(v.keys) |-> JStr(v.keys[i])]
      [] v.t = "str" -> [i \in 1..Len(v.s) |-> JStr(<<v.s[i]>>)]

\* {k: v for k, v in it.items() if k not in ["action"]}
RECURSIVE WithoutAction(_, _)
WithoutAction(d, i) ==
    IF i > Len(d.keys) THEN JDict(<<>>, <<>>)
    ELSE LET rest == WithoutAction(d, i + 1) IN
         IF d.keys[i] = T_action THEN rest
         ELSE JDict(<<d.keys[i]>> \o rest.keys, <<d.items[i]>> \o rest.items)

UnsupportedMessage(act) ==
    <<"Sorry, I don't know how to '">> \o ReplaceUnderscore(act) \o <<"'.">>

ArgumentsMessage(act) ==
    <<"Sorry, I had trouble executing the command. Missing or incorrect arguments for '">>
    \o ReplaceUnderscore(act) \o <<"'.">>

ErrorMessage(act) ==
    <<"Sorry, I encountered an error while trying to '">> \o ReplaceUnderscore(act) \o <<"'.">>

\* a join that keeps the last text only
LastOnly(texts) == IF texts = <<>> THEN <<>> ELSE texts[Len(texts)]

\* "\n".join(results)
RECURSIVE Join(_)
Join(texts) ==
    IF texts = <<>> THEN <<>>
    ELSE IF Len(texts) = 1 THEN texts[1]
    ELSE texts[1] \o <<NL>> \o Join(Tail(texts))

\* a search that looks at the start of the text only
StartsWith(text, needle) ==
    Len(needle) <= Len(text) /\ \A j \in 1..Len(needle) : text[j] = needle[j]

\* needle in text, for two strings: the tokens of needle stand in text one after the
\* other, at the start, at the end or anywhere between
Contains(text, needle) ==
    \E i \in 0..(Len(text) - Len(needle)) : \A j \in 1..Len(needle) : text[i + j] = needle[j]

ChatReply == <<"chat reply">>

\* what generate_response returns when the call to the model fails
ChatApology(p) ==
    CASE p = "gemini" -> <<"I'm having trouble generating a response right now.">>
      [] p = "scaleway" ->
            <<"I apologize, but I'm having trouble generating a response right now with Scaleway: <error>">>
      [] OTHER -> <<"I apologize, but I'm having trouble generating a response right now.">>

\* what the chat completion holds: a text, a text with white space around it, an
\* empty text, or no content (None); or the request fails
ChatContents == {JStr(ChatReply), JStr(<<SP, "chat reply", NL>>), JStr(<<>>), JNull}

ChatOutcomes ==
    {[kind |-> "error", content |-> JNull]}
        \cup {[kind |-> "content", content |-> c] : c \in ChatContents}

\* generate_response of the provider p on the outcome out of its request: core
\* gemini_llm.py returns (content or "").strip(); providers/gemini_llm.py and
\* scaleway_llm.py return the content as it is; the others return content.strip(),
\* and content None raises inside their try
GenerateResponse(p, out) ==
    IF out.kind = "error" THEN JStr(ChatApology(p))
    ELSE CASE p = "gemini" ->
                JStr(Strip(IF out.content = JNull THEN <<>> ELSE out.content.s))
           [] p \in {"gemini_old", "scaleway"} -> out.content
           [] OTHER ->
                IF out.content = JNull THEN JStr(ChatApology(p))
                ELSE JStr(Strip(out.content.s))

\* backend.py lines 136-139: the clarify intents are answered before the loop;
\* "raise" is an exception that leaves process_command
ClarifyCheck(parsed) ==
    IF ~Truthy(parsed) THEN [kind |-> "pass", value |-> JNull]
    ELSE IF ~IsList(parsed) \/ ~IsDict(parsed.items[1]) THEN [kind |-> "raise", value |-> JNull]
    ELSE LET first == parsed.items[1]
             act == DictGet(first, T_action)
         IN  IF act = JStr(T_clarify)
             THEN [kind |-> "return",
                   value |-> IF HasKey(first, T_prompt) THEN DictGet(first, T_prompt)
                             ELSE JStr(<<"Could you clarify your intent?">>)]
             ELSE IF act = JStr(T_clarify_file)
             THEN [kind |-> "return",
                   value |-> IF HasKey(first, T_prompt) THEN DictGet(first, T_prompt)
                             ELSE JStr(<<"Which file did you mean? Please specify the filename.">>)]
             ELSE [kind |-> "pass", value |-> JNull]

RECURSIVE WithContent(_)
WithContent(history) ==
    IF history = <<>> THEN <<>>
    ELSE IF Truthy(Head(history).content) THEN <<Head(history)>> \o WithContent(Tail(history))
    ELSE WithContent(Tail(history))

\* generate_response of the providers: the system prompt, the turns of the history
\* (gemini_llm.py leaves out those without content), then the prompt as a user message.
\* providers/gemini_llm.py sends the system prompt under the role "user"
ChatMessages(p, prompt, history) ==
    <<Message(IF p = "gemini_old" THEN "user" ELSE "system", JStr(<<"SYSTEM_CHAT">>))>>
        \o (IF p = "gemini" THEN WithContent(history) ELSE history)
        \o <<Message("user", JStr(prompt))>>

\* a return of process_command; core/backend.py appends the answer to the history
Return(value) ==
    /\ pc' = "returned"
    /\ response' = value
    /\ conversation_history' =
          IF Legacy THEN conversation_history
          ELSE Append(conversation_history, Message("assistant", value))

\* an exception leaves process_command
Raise ==
    /\ pc' = "raised"
    /\ response' = JNull
    /\ UNCHANGED conversation_history

\* from the return of parse_intents to the for loop; parsed is what it returned
EnterLoop(reply, parsed) ==
    /\ pc = "parsing"
    /\ llm_reply' = reply
    /\ UNCHANGED <<turn, history_before, user_text, results, action_executed, calls, chat_calls>>
    /\ LET check == IF Legacy THEN ClarifyCheck(parsed) ELSE [kind |-> "pass", value |-> JNull]
       IN  /\ intents' = parsed
           /\ CASE check.kind = "return" ->
                     /\ pc' = "returned"
                     /\ idx' = 0
                     /\ response' = check.value
                     /\ UNCHANGED conversation_history
                [] check.kind = "raise" -> Raise /\ idx' = 0
                [] OTHER ->
                     /\ pc' = "loop"
                     /\ idx' = 1
                     /\ response' = JNull
                     /\ UNCHANGED conversation_history
    /\ UNCHANGED <<ttsVars, guiVars, loadVars, extractVars, provider, last_filename, fs>>

\* a failure path that empties the history
DropAll(history) == <<>>

\* core/backend.py line 139: the history is not empty and its last entry is a user's
LastIsUser(history) == history # <<>> /\ history[Len(history)].role = "user"

\* core/backend.py line 140, self.conversation_history.pop(), on a list that is not
\* empty
PopUser(history) == SubText(history, 1, Len(history) - 1)

\* except Exception around parse_intents, up to the check of line 139: with a
\* user's message at the end of the history the pop of line 140 is next; the other
\* way, and under backend.py, which keeps no history, the fixed answer is returned
ParseFailed(reply) ==
    /\ pc = "parsing"
    /\ llm_reply' = reply
    /\ intents' = JNull
    /\ idx' = 0
    /\ IF ~Legacy /\ LastIsUser(conversation_history)
       THEN /\ pc' = "popping"
            /\ response' = response
       ELSE /\ pc' = "returned"
            /\ response' = JStr(<<"Sorry, I didn't understand. Did you want me to run a command or chat?">>)
    /\ UNCHANGED <<ttsVars, guiVars, loadVars, extractVars, provider, last_filename, fs, turn, history_before, user_text,
                   results, action_executed, calls, chat_calls, conversation_history>>

\* core/backend.py lines 140-141: the last entry is taken from the list that
\* self.conversation_history names now, and the fixed answer is returned; when
\* clear_conversation_history has rebound it to an empty list since line 139, pop
\* raises IndexError, which leaves process_command
PopMessage ==
    /\ pc = "popping"
    /\ IF conversation_history = <<>>
       THEN Raise
       ELSE /\ pc' = "returned"
            /\ response' = JStr(<<"Sorry, I didn't understand. Did you want me to run a command or chat?">>)
            /\ conversation_history' = PopUser(conversation_history)
    /\ UNCHANGED <<ttsVars, guiVars, loadVars, extractVars, provider, last_filename, fs, turn, history_before, user_text,
                   results, action_executed, calls, chat_calls, llm_reply, intents, idx>>

\* process_command up to the call of parse_intents: core/backend.py appends the
\* user's message to the history before it
ProcessCommand(text) ==
    /\ phase = "ready"
    /\ pc \notin {"parsing", "popping", "loop", "chatting"}
    /\ turn' = turn + 1
    /\ history_before' = conversation_history
    /\ user_text' = text
    /\ results' = <<>>
    /\ action_executed' = FALSE
    /\ calls' = <<>>
    /\ chat_calls' = <<>>
    /\ pc' = "parsing"
    /\ response' = JNull
    /\ conversation_history' =
          IF Legacy THEN conversation_history
          ELSE Append(conversation_history, Message("user", JStr(text)))
    /\ UNCHANGED <<ttsVars, guiVars, loadVars, extractVars, provider, last_filename, fs, llm_reply, intents,
                   idx>>

\* the call of parse_intents and what follows it up to the loop
ParseIntentsCall(reply) ==
    IF reply.kind = "raise" THEN ParseFailed(reply)
    ELSE EnterLoop(reply, ParseIntents(provider, reply))

\* a comparison with "none" that never matches
NeverNone(act) == FALSE

\* act == "none"
IsNoneAction(act) == act = JStr(T_none)

\* the for loop is at an intent
AtIntent == pc = "loop" /\ Iterable(intents) /\ idx <= Len(IterItems(intents))

CurrentIntent == IterItems(intents)[idx]

CurrentAction == DictGet(CurrentIntent, T_action)

locals == <<turn, history_before, user_text, llm_reply, intents>>

\* the exception is raised by act.replace: the action was looked up in the map and
\* found absent, and it is None or a number (a list or a dict cannot be hashed, and
\* the lookup itself raises)
RaisedByReplace ==
    /\ AtIntent
    /\ IsDict(CurrentIntent)
    /\ CurrentAction.t \in {"null", "num"}

\* an exception that nothing catches: intents cannot be iterated, the element has no
\* get(), or its action is neither "none" nor in the map and has no replace() (None, a
\* number) or cannot be hashed (a list, a dict). backend.py line 151 empties results
\* before act.replace is reached
LoopRaises ==
    /\ pc = "loop"
    /\ \/ ~Iterable(intents)
       \/ /\ AtIntent
          /\ \/ ~IsDict(CurrentIntent)
             \/ ~IsStr(CurrentAction)
    /\ Raise
    /\ results' = IF Legacy /\ RaisedByReplace THEN <<>> ELSE results
    /\ UNCHANGED <<ttsVars, guiVars, loadVars, extractVars, provider, last_filename, fs, locals, idx,
                   action_executed, calls, chat_calls>>

\* if act == "none": break
BreakOnNone ==
    /\ AtIntent
    /\ IsDict(CurrentIntent)
    /\ IsNoneAction(CurrentAction)
    /\ idx' = Len(IterItems(intents)) + 1
    /\ UNCHANGED <<ttsVars, guiVars, loadVars, extractVars, provider, conversation_history, last_filename, fs,
                   pc, locals, results, action_executed, response, calls, chat_calls>>

\* if act == "none": continue
SkipNone ==
    /\ AtIntent
    /\ IsDict(CurrentIntent)
    /\ IsNoneAction(CurrentAction)
    /\ idx' = idx + 1
    /\ UNCHANGED <<ttsVars, guiVars, loadVars, extractVars, provider, conversation_history, last_filename, fs,
                   pc, locals, results, action_executed, response, calls, chat_calls>>

\* an unsupported action that is passed over like "none", the loop going on
SkipUnsupported ==
    /\ AtIntent
    /\ IsDict(CurrentIntent)
    /\ IsStr(CurrentAction)
    /\ ~IsNoneAction(CurrentAction)
    /\ CurrentAction.s \notin DOMAIN supported_actions_map
    /\ idx' = idx + 1
    /\ UNCHANGED <<ttsVars, guiVars, loadVars, extractVars, provider, conversation_history, last_filename, fs,
                   pc, locals, results, action_executed, response, calls, chat_calls>>

\* if act not in self.supported_actions_map: the turn ends with the apology
UnsupportedAction ==
    /\ AtIntent
    /\ IsDict(CurrentIntent)
    /\ IsStr(CurrentAction)
    /\ ~IsNoneAction(CurrentAction)
    /\ CurrentAction.s \notin DOMAIN supported_actions_map
    /\ Return(JStr(UnsupportedMessage(CurrentAction.s)))
    /\ results' = IF Legacy THEN <<>> ELSE results
    /\ UNCHANGED <<ttsVars, guiVars, loadVars, extractVars, provider, last_filename, fs, locals, idx,
                   action_executed, calls, chat_calls>>

\* the pointer moved by the action alone, whatever the result says
IgnoreSentinel(act, kwargs, result) ==
    LET filename == DictGet(kwargs, T_filename) IN
    IF act \in {T_create_file, T_write_file} THEN filename
    ELSE IF act = T_delete_file /\ last_filename = filename THEN JNull
    ELSE last_filename

\* backend.py lines 163-168: the file the next command may refer to
NextLastFilename(act, kwargs, result) ==
    LET filename == DictGet(kwargs, T_filename) IN
    IF act = T_create_file /\ Contains(result, FILE_CREATED) THEN filename
    ELSE IF act = T_write_file /\ Contains(result, FILE_WRITTEN) THEN filename
    ELSE IF act = T_delete_file /\ last_filename = filename
            /\ Contains(result, FILE_DELETED) THEN JNull
    ELSE last_filename

\* a result that is not kept
DropResult(list, result) == list

\* results.append(result)
AppendResult(list, result) == Append(list, result)

\* the action is in the map: its method is called with the intent's other fields
InvokeMethod ==
    /\ AtIntent
    /\ IsDict(CurrentIntent)
    /\ IsStr(CurrentAction)
    /\ ~IsNoneAction(CurrentAction)
    /\ CurrentAction.s \in DOMAIN supported_actions_map
    /\ LET act == CurrentAction.s
           entry == supported_actions_map[act]
           kwargs == WithoutAction(CurrentIntent, 1)
       IN  \E env \in EnvChoices(entry.module, entry.method_name) :
             LET r == CallMethod(entry.module, entry.method_name, kwargs, fs, env) IN
             /\ calls' = Append(calls, [idx |-> idx, action |-> act, module |-> entry.module,
                                        method_name |-> entry.method_name, kwargs |-> kwargs,
                                        kind |-> r.kind, ran |-> r.ran, body |-> r.body,
                                        result |-> r.result, fs |-> r.fs])
             /\ fs' = r.fs
             /\ CASE r.kind = "ok" ->
                       /\ results' = AppendResult(results, r.result)
                       /\ action_executed' = IF Legacy THEN action_executed ELSE TRUE
                       /\ idx' = idx + 1
                       /\ last_filename' = IF Legacy THEN NextLastFilename(act, kwargs, r.result)
                                           ELSE last_filename
                       /\ UNCHANGED <<pc, response, conversation_history>>
                  [] r.kind = "TypeError" ->
                       /\ Return(JStr(ArgumentsMessage(act)))
                       /\ UNCHANGED <<results, action_executed, idx, last_filename>>
                  [] r.kind = "Exception" ->
                       /\ Return(JStr(ErrorMessage(act)))
                       /\ UNCHANGED <<results, action_executed, idx, last_filename>>
    /\ UNCHANGED <<ttsVars, guiVars, loadVars, extractVars, provider, locals, chat_calls>>

\* after the loop: the joined results are returned, or generate_response is called
\* with the history as it is now, and the turn waits for the model's reply
Respond ==
    /\ pc = "loop"
    /\ Iterable(intents)
    /\ idx > Len(IterItems(intents))
    /\ IF results # <<>>
       THEN /\ Return(JStr(Join(results)))
            /\ UNCHANGED chat_calls
       ELSE IF Legacy \/ ~action_executed
       THEN /\ chat_calls' = Append(chat_calls,
                                    [prompt |-> user_text,
                                     history |-> conversation_history])
            /\ pc' = "chatting"
            /\ UNCHANGED <<response, conversation_history>>
       ELSE /\ Return(JStr(<<"I'm not sure how to respond to that.">>))
            /\ UNCHANGED chat_calls
    /\ UNCHANGED <<ttsVars, guiVars, loadVars, extractVars, provider, last_filename, fs, locals, idx,
                   results, action_executed, calls>>

\* generate_response returns: core/backend.py appends what it gave to the history as
\* it is then, and process_command returns it
ChatReturns ==
    /\ pc = "chatting"
    /\ \E out \in ChatOutcomes : Return(GenerateResponse(provider, out))
    /\ UNCHANGED <<ttsVars, guiVars, loadVars, extractVars, provider, last_filename, fs, locals, idx,
                   results, action_executed, calls, chat_calls>>

\* Backend.clear_conversation_history (core): the GUI thread calls it at any time,
\* also while process_command runs in a worker thread
ClearConversationHistory ==
    /\ ~Legacy
    /\ phase = "ready"
    /\ conversation_history' = <<>>
    /\ UNCHANGED <<ttsVars, guiVars, loadVars, extractVars, provider, last_filename, fs, pc, locals, idx,
                   results, action_executed, response, calls, chat_calls>>

(***************************************************************************)
(* Spec: one command, for every provider, two module lists, and every      *)
(* answer of the model out of Replies.                                     *)
(***************************************************************************)
MaxIntents == 2

T_fly_away == <<"fly", "_", "away">>

ObjCapitalNone == Obj1(T_action, JStr(T_None))
ObjDelete == Obj2(T_action, JStr(T_delete_file), T_filename, JStr(T_notes))
ObjWrite ==
    Obj3(T_action, JStr(T_write_file), T_filename, JStr(T_notes), T_content, JStr(<<"hi">>))
ObjRename ==
    Obj3(T_action, JStr(T_rename_file), T_src, JStr(T_notes), T_dest, JStr(<<"new", ".", "txt">>))
T_docs == <<"docs">>
\* a file name that holds the words of a sentinel
T_file_created == FILE_CREATED \o <<".", "txt">>
ObjCreateAgain ==
    Obj2(T_action, JStr(T_create_file), T_filename, JStr(T_file_created))
T_other == <<"other", ".", "txt">>

ObjCreateFolder == Obj2(T_action, JStr(T_create_folder), T_folder, JStr(T_docs))
ObjDeleteFolder == Obj2(T_action, JStr(T_delete_folder), T_folder, JStr(T_docs))
ObjList == Obj2(T_action, JStr(T_list_directory), T_directory, JStr(T_docs))
ObjAppend ==
    Obj3(T_action, JStr(T_append_file), T_filename, JStr(T_notes), T_content, JStr(<<"more">>))
ObjRead == Obj2(T_action, JStr(T_read_file), T_filename, JStr(T_notes))
ObjCopy == Obj3(T_action, JStr(T_copy_file), T_src, JStr(T_notes), T_dest, JStr(T_docs))
ObjMove == Obj3(T_action, JStr(T_move_file), T_src, JStr(T_notes), T_dest, JStr(T_other))
ObjOpen == Obj2(T_action, JStr(T_open_application), T_path, JStr(<<"notepad", ".", "exe">>))
ObjMoveMouse == Obj3(T_action, JStr(T_move_mouse), T_x, JNum("1"), T_y, JNum("2"))
ObjClick == Obj1(T_action, JStr(T_click))
ObjType == Obj2(T_action, JStr(T_type_text), T_text, JStr(<<"hi">>))
ObjPress == Obj2(T_action, JStr(T_press_key), T_key, JStr(<<"enter">>))
ObjUnknown == Obj1(T_action, JStr(T_fly_away))
ObjCreateNoArg == Obj1(T_action, JStr(T_create_file))
ObjFoo == Obj2(T_action, JStr(T_foo), T_target, JStr(T_notes))
ObjFooNoArg == Obj1(T_action, JStr(T_foo))
ObjBaz == Obj1(T_action, JStr(T_baz))
ObjClarify == Obj2(T_action, JStr(T_clarify), T_prompt, JStr(<<"Which file?">>))

IntentElems ==
    {ObjNone, ObjCreate, ObjDelete, ObjWrite, ObjUnknown, ObjCreateNoArg, ObjFoo,
     ObjClarify, ObjNullAction, JNum("1")}

IntentLists == {JList(q) : q \in SeqsUpTo(IntentElems, MaxIntents)}

\* what the model's text can hold: a list of intents, one object, or another value
IntentValues ==
    IntentLists
        \cup {JList(<<ObjCapitalNone>>), JList(<<ObjBaz>>), JList(<<ObjRename>>),
              JList(<<ObjCreate, ObjRename>>), JList(<<ObjRename, ObjWrite>>),
              JList(<<ObjCreateFolder, ObjCopy, ObjList>>), JList(<<ObjAppend, ObjRead>>),
              JList(<<ObjMove, ObjDeleteFolder>>), JList(<<ObjOpen, ObjClick>>),
              JList(<<ObjMoveMouse, ObjType, ObjPress>>),
              JList(<<ObjFooNoArg>>), JList(<<ObjCreate, ObjFooNoArg>>),
              JList(<<ObjNoAction>>), JList(<<ObjCreate, ObjNoAction>>),
              JList(<<ObjCreateAgain, ObjUnknown>>)}
        \cup {ObjNone, ObjCreate, ObjItems, ObjClarify, JNum("5"), JNum("0")}

\* the values the model also answers inside a fenced block
FencedValues == {v \in IntentValues : IsList(v) => Len(v.items) <= 1}

Replies ==
    {LlmError, LlmShape, LlmNull, LlmRaise}
    \cup {LlmText(RawOf("bare", v)) : v \in IntentValues}
    \cup {LlmText(RawOf("fenced", v)) : v \in FencedValues}
    \cup {LlmText(<<"hello">>), LlmText(<<>>)}

UserTexts == {<<"please", SP, "help">>}

MainConfigs == {<<"system", "alpha">>, <<"alpha", "beta">>}

\* the history an earlier turn of the session left
EarlierTurn ==
    <<Message("user", JStr(<<"hello">>)), Message("assistant", JStr(ChatReply))>>

\* what the session holds when the command arrives
Histories(p) == IF p \in LegacyProviders THEN {<<>>} ELSE {<<>>, EarlierTurn}

LastFilenames(p) == IF p \in LegacyProviders THEN {JNull, JStr(T_other)} ELSE {JNull}

\* the files and the file pointer matter to the system module's actions only
SystemEnabled(mods) == \E i \in 1..Len(mods) : mods[i] = "system"

\* a file an earlier command left
OldFile(name) == FileEntry(name, <<"old">>)

\* a folder an earlier command left, with three files in it
OldFolder ==
    FolderEntry(T_docs, {Child(<<"a", ".", "txt">>, <<"old">>),
                         Child(<<"b", ".", "txt">>, <<"old">>),
                         Child(<<"c", ".", "txt">>, <<"old">>)})

\* the file last_filename names is there
InitialFiles(mods, last) ==
    IF ~SystemEnabled(mods) THEN {{}}
    ELSE IF last = JNull THEN {{}, {OldFile(T_notes)}, {OldFile(T_file_created), OldFolder}}
    ELSE {{OldFile(last.s)}, {OldFile(T_notes), OldFile(last.s)}}

InitialLastFilenames(p, mods) == IF SystemEnabled(mods) THEN LastFilenames(p) ELSE {JNull}

Init ==
    /\ enabled_modules \in MainConfigs
    /\ phase = "ready"
    /\ load_index = Len(enabled_modules)
    /\ automation_modules = LoadAll(EmptyRegistry, enabled_modules).modules
    /\ supported_actions_map = LoadAll(EmptyRegistry, enabled_modules).map
    /\ warnings = LoadAll(EmptyRegistry, enabled_modules).warnings
    /\ load_errors = LoadAll(EmptyRegistry, enabled_modules).errors
    /\ all_supported_actions_list_for_llm = ActionPrompt(automation_modules)
    /\ ExtractIdle
    /\ provider \in Providers
    /\ conversation_history \in Histories(provider)
    /\ last_filename \in InitialLastFilenames(provider, enabled_modules)
    /\ fs \in InitialFiles(enabled_modules, last_filename)
    /\ TurnLocalsIdle
    /\ TtsIdle
    /\ GuiIdle

Command == \E text \in UserTexts : pc = "idle" /\ ProcessCommand(text)

Parse == \E reply \in Replies : ParseIntentsCall(reply)

Next ==
    \/ Command
    \/ Parse
    \/ PopMessage
    \/ LoopRaises
    \/ SkipNone
    \/ UnsupportedAction
    \/ InvokeMethod
    \/ Respond
    \/ ChatReturns
    \/ ClearConversationHistory

Spec == Init /\ [][Next]_vars

(***************************************************************************)
(* SpecLoad: Backend.__init__ for every list of up to MaxModules distinct  *)
(* module paths.                                                           *)
(***************************************************************************)
DistinctSeqs(S, n) ==
    {q \in SeqsUpTo(S, n) : \A i, j \in 1..Len(q) : i # j => q[i] # q[j]}

InitLoad ==
    /\ enabled_modules \in DistinctSeqs(ModuleIds, MaxModules)
    /\ phase = "loading"
    /\ load_index = 0
    /\ automation_modules = <<>>
    /\ supported_actions_map = <<>>
    /\ all_supported_actions_list_for_llm = <<>>
    /\ warnings = <<>>
    /\ load_errors = <<>>
    /\ ExtractIdle
    /\ TurnIdle
    /\ TtsIdle
    /\ GuiIdle

\* one turn of the for loop of load_automation_modules
LoadNext ==
    /\ phase = "loading"
    /\ load_index < Len(enabled_modules)
    /\ load_index' = load_index + 1
    /\ SetRegistry(LoadModule(Registry, enabled_modules[load_index + 1]))
    /\ UNCHANGED <<enabled_modules, phase, all_supported_actions_list_for_llm, extractVars,
                   turnVars, ttsVars, guiVars>>

\* the rest of __init__: the prompt is built from automation_modules, and an exception
\* of get_supported_actions() there leaves __init__
FinishInit ==
    /\ phase = "loading"
    /\ load_index = Len(enabled_modules)
    /\ IF PromptRaises(automation_modules)
       THEN /\ phase' = "raised"
            /\ UNCHANGED all_supported_actions_list_for_llm
       ELSE /\ phase' = "ready"
            /\ all_supported_actions_list_for_llm' = ActionPrompt(automation_modules)
    /\ UNCHANGED <<enabled_modules, load_index, automation_modules, supported_actions_map,
                   warnings, load_errors, extractVars, turnVars, ttsVars, guiVars>>

NextLoad == LoadNext \/ FinishInit

SpecLoad == InitLoad /\ [][NextLoad]_vars

(***************************************************************************)
(* SpecExtract: _extract_json_from_response on every text of the family.   *)
(***************************************************************************)
LoadIdle ==
    /\ enabled_modules = <<>>
    /\ phase = "ready"
    /\ load_index = 0
    /\ automation_modules = <<>>
    /\ supported_actions_map = <<>>
    /\ all_supported_actions_list_for_llm = ActionPrompt(<<>>)
    /\ warnings = <<>>
    /\ load_errors = <<>>

InitExtract ==
    /\ \/ /\ exShape \in Shapes
          /\ exVal \in ExtractValues
          /\ exRaw = RawOf(exShape, exVal)
       \/ /\ exShape = "garbage"
          /\ exVal = JNull
          /\ exRaw \in Garbage
    /\ exOut = JNull
    /\ exDone = FALSE
    /\ LoadIdle
    /\ TurnIdle
    /\ TtsIdle
    /\ GuiIdle

Extract ==
    /\ ~exDone
    /\ exShape # "none"
    /\ exOut' = ExtractJson(exRaw)
    /\ exDone' = TRUE
    /\ UNCHANGED <<exShape, exVal, exRaw, loadVars, turnVars, ttsVars, guiVars>>

NextExtract == Extract

SpecExtract == InitExtract /\ [][NextExtract]_vars

(***************************************************************************)
(* SpecTTS: TTSModule of core/tts.py, its worker thread and the threads    *)
(* that call speak() and stop(), in every interleaving.                    *)
(***************************************************************************)
MaxPuts == 4

TtsTexts == {JStr(<<"hello">>), JStr(<<"bye">>)}

Callers == {"gui", "voice"}

\* __init__ after self.thread.start(): the queue is empty, the event is clear, the
\* worker is at the first line of _process_queue and the constructor is about to wait
InitTTS ==
    /\ tts_queue = <<>>
    /\ tts_unfinished = 0
    /\ tts_enqueued = <<>>
    /\ tts_pc = "init"
    /\ tts_text = JNull
    /\ tts_pending = <<>>
    /\ tts_spoken = <<>>
    /\ tts_ready = FALSE
    /\ tts_ctor = "wait"
    /\ GuiIdle
    /\ LoadIdle
    /\ ExtractIdle
    /\ TurnIdle

\* self.engine = pyttsx3.init() and the selection of rate, volume and voice: the
\* calls return, or one of them raises (no driver, no audio device) and the exception
\* ends the thread
TtsEngineInit ==
    /\ tts_pc = "init"
    /\ \E raised \in BOOLEAN : tts_pc' = IF raised THEN "init_failed" ELSE "set"
    /\ UNCHANGED <<tts_queue, tts_unfinished, tts_enqueued, tts_text, tts_pending, tts_spoken,
                   tts_ready, tts_ctor, guiVars, loadVars, extractVars, turnVars>>

\* self._engine_ready_event.set()
TtsSetReady ==
    /\ tts_pc = "set"
    /\ tts_ready' = TRUE
    /\ tts_pc' = "get"
    /\ UNCHANGED <<tts_queue, tts_unfinished, tts_enqueued, tts_text, tts_pending, tts_spoken,
                   tts_ctor, guiVars, loadVars, extractVars, turnVars>>

\* self._engine_ready_event.wait() in __init__: returns once the event is set
TtsConstructorWait ==
    /\ tts_ctor = "wait"
    /\ tts_ready
    /\ tts_ctor' = "returned"
    /\ UNCHANGED <<tts_queue, tts_unfinished, tts_enqueued, tts_pc, tts_text, tts_pending,
                   tts_spoken, tts_ready, guiVars, loadVars, extractVars, turnVars>>

\* queue.Queue.put: the item goes to the end under the queue's lock. speak() and stop()
\* are methods of a constructed TTSModule
QueuePut(c, item) ==
    /\ tts_ctor = "returned"
    /\ Len(tts_enqueued) < MaxPuts
    /\ tts_queue' = Append(tts_queue, item)
    /\ tts_unfinished' = tts_unfinished + 1
    /\ tts_enqueued' = Append(tts_enqueued, [by |-> c, item |-> item])
    /\ UNCHANGED <<tts_pc, tts_text, tts_pending, tts_spoken, tts_ready, tts_ctor, guiVars, loadVars, extractVars, turnVars>>

\* speak(text), from the thread c
Speak(c, text) == QueuePut(c, text)

\* stop(), from the thread c: None is the sentinel
Stop(c) == QueuePut(c, JNull)

\* queue.get() that takes the item put last
TtsGetLast ==
    /\ tts_pc = "get"
    /\ tts_queue # <<>>
    /\ tts_text' = tts_queue[Len(tts_queue)]
    /\ tts_queue' = SubText(tts_queue, 1, Len(tts_queue) - 1)
    /\ tts_pc' = "check"
    /\ UNCHANGED <<tts_unfinished, tts_enqueued, tts_pending, tts_spoken, tts_ready, tts_ctor, guiVars, loadVars, extractVars,
                   turnVars>>

\* text = self.queue.get(): blocks while the queue is empty, takes the oldest item
TtsGet ==
    /\ tts_pc = "get"
    /\ tts_queue # <<>>
    /\ tts_text' = Head(tts_queue)
    /\ tts_queue' = Tail(tts_queue)
    /\ tts_pc' = "check"
    /\ UNCHANGED <<tts_unfinished, tts_enqueued, tts_pending, tts_spoken, tts_ready, tts_ctor, guiVars, loadVars, extractVars,
                   turnVars>>

\* if text is None
TtsCheck ==
    /\ tts_pc = "check"
    /\ tts_pc' = IF tts_text = JNull THEN "endLoop" ELSE "say"
    /\ UNCHANGED <<tts_queue, tts_unfinished, tts_enqueued, tts_text, tts_pending, tts_spoken,
                   tts_ready, tts_ctor, guiVars, loadVars, extractVars, turnVars>>

\* the sentinel is passed over and the loop goes on
TtsEndLoopContinue ==
    /\ tts_pc = "endLoop"
    /\ tts_pc' = "get"
    /\ UNCHANGED <<tts_queue, tts_unfinished, tts_enqueued, tts_text, tts_pending, tts_spoken,
                   tts_ready, tts_ctor, guiVars, loadVars, extractVars, turnVars>>

\* self.engine.endLoop(); break. The engine's endLoop() returns, and the loop is left,
\* or it raises RuntimeError (no run loop is started), and the exception ends the thread
TtsEndLoop ==
    /\ tts_pc = "endLoop"
    /\ \E raised \in BOOLEAN : tts_pc' = IF raised THEN "died" ELSE "done"
    /\ UNCHANGED <<tts_queue, tts_unfinished, tts_enqueued, tts_text, tts_pending, tts_spoken,
                   tts_ready, tts_ctor, guiVars, loadVars, extractVars, turnVars>>

\* self.engine.say(text): the engine queues the utterance
TtsSay ==
    /\ tts_pc = "say"
    /\ tts_pending' = Append(tts_pending, tts_text)
    /\ tts_pc' = "runAndWait"
    /\ UNCHANGED <<tts_queue, tts_unfinished, tts_enqueued, tts_text, tts_spoken, tts_ready, tts_ctor, guiVars, loadVars,
                   extractVars, turnVars>>

\* self.engine.runAndWait(): returns when every queued utterance has been spoken
TtsRunAndWait ==
    /\ tts_pc = "runAndWait"
    /\ tts_spoken' = tts_spoken \o tts_pending
    /\ tts_pending' = <<>>
    /\ tts_pc' = "task_done"
    /\ UNCHANGED <<tts_queue, tts_unfinished, tts_enqueued, tts_text, tts_ready, tts_ctor, guiVars, loadVars, extractVars,
                   turnVars>>

\* self.queue.task_done(), and back to the head of the loop
TtsTaskDone ==
    /\ tts_pc = "task_done"
    /\ tts_unfinished' = tts_unfinished - 1
    /\ tts_pc' = "get"
    /\ UNCHANGED <<tts_queue, tts_enqueued, tts_text, tts_pending, tts_spoken, tts_ready, tts_ctor, guiVars, loadVars,
                   extractVars, turnVars>>

\* the steps of the worker thread
TtsWorker ==
    \/ TtsEngineInit \/ TtsSetReady \/ TtsGet \/ TtsCheck
    \/ TtsEndLoop \/ TtsSay \/ TtsRunAndWait \/ TtsTaskDone

SpeakCall == \E c \in Callers : \E text \in TtsTexts : Speak(c, text)

StopCall == \E c \in Callers : Stop(c)

NextTTS ==
    \/ TtsEngineInit
    \/ TtsSetReady
    \/ TtsConstructorWait
    \/ SpeakCall
    \/ StopCall
    \/ TtsGet
    \/ TtsCheck
    \/ TtsEndLoop
    \/ TtsSay
    \/ TtsRunAndWait
    \/ TtsTaskDone

\* the worker is a thread of its own: it runs whenever it can take a step, and the
\* engine's calls return; so does the thread that constructs the module
SpecTTS ==
    InitTTS /\ [][NextTTS]_vars /\ WF_vars(TtsWorker) /\ WF_vars(TtsConstructorWait)

(***************************************************************************)
(* Claims about loading (SpecLoad).                                        *)
(***************************************************************************)
Declares(m, name) == \E i \in 1..Len(ModuleDef(m).actions) : ModuleDef(m).actions[i].name = name

LoadFinished == phase # "loading"

\* the positions in automation_modules of the modules that declare "foo"
FooDeclarers == {i \in 1..Len(automation_modules) : Declares(automation_modules[i], T_foo)}

FirstFooDeclarer == CHOOSE i \in FooDeclarers : \A j \in FooDeclarers : i <= j

\* C5 as stated: once two loaded modules declare "foo", the map binds "foo" to the
\* handler of the one loaded first and a duplicate warning for "foo" was printed.
C5_FirstLoadedKeepsFoo ==
    (LoadFinished /\ Cardinality(FooDeclarers) >= 2) =>
        /\ T_foo \in DOMAIN supported_actions_map
        /\ supported_actions_map[T_foo].module = automation_modules[FirstFooDeclarer]
        /\ T_foo \in Range(warnings)

\* C5, the state the code reaches: alpha then beta loaded, the warning printed, and
\* "foo" bound to beta's handler
C5_LastLoadedBound ==
    /\ phase = "ready"
    /\ automation_modules = <<"alpha", "beta">>
    /\ T_foo \in Range(warnings)
    /\ supported_actions_map[T_foo].module = "beta"
    /\ supported_actions_map[T_foo].method_name = "other_foo"

\* C9 as stated: when loading a module raised, construction completes, the failed
\* module is neither in automation_modules nor the owner of any map entry, and every
\* action name of the modules that loaded is in the map.
C9_FailedModuleAbsent ==
    (LoadFinished /\ load_errors # <<>>) =>
        /\ phase = "ready"
        /\ \A m \in Range(load_errors) :
              /\ m \notin Range(automation_modules)
              /\ \A k \in DOMAIN supported_actions_map : supported_actions_map[k].module # m
        /\ \A m \in Range(enabled_modules) \ Range(load_errors) :
              /\ m \in Range(automation_modules)
              /\ \A i \in 1..Len(ModuleDef(m).actions) :
                    ModuleDef(m).actions[i].name \in DOMAIN supported_actions_map

\* C9, the state the code reaches: gamma raised KeyError at its second action and is
\* still in automation_modules with its first action bound
C9_FailedModuleKept ==
    /\ phase = "ready"
    /\ enabled_modules = <<"gamma">>
    /\ load_errors = <<"gamma">>
    /\ automation_modules = <<"gamma">>
    /\ supported_actions_map[T_baz].module = "gamma"

LoadOrders(q) ==
    {p \in [1..Len(q) -> Range(q)] : \A i, j \in 1..Len(q) : i # j => p[i] # p[j]}

DistinctDescriptions(q) ==
    \A i, j \in 1..Len(q) : i # j => ModuleDef(q[i]).description # ModuleDef(q[j]).description

\* the "**Module: ...**" lines of a prompt, as the ranks of their descriptions
RECURSIVE HeaderRanks(_)
HeaderRanks(lines) ==
    IF lines = <<>> THEN <<>>
    ELSE (IF Head(lines)[1] = NL /\ Head(lines)[2] = "**Module: "
          THEN <<StrRank(Head(lines)[3])>> ELSE <<>>)
         \o HeaderRanks(Tail(lines))

\* the action name of a bullet line
BulletName(line) == SubText(line, 2, Find(line, "**: ") - 1)

IsBullet(line) == line[1] = "  * **"

NonDecreasing(q) == \A i \in 1..(Len(q) - 1) : q[i] <= q[i + 1]

\* two bullets with only an example line between them belong to one module
BulletsSorted(lines) ==
    \A i \in 1..(Len(lines) - 2) :
        (IsBullet(lines[i]) /\ IsBullet(lines[i + 2])) =>
            NameRank(BulletName(lines[i])) < NameRank(BulletName(lines[i + 2]))

\* every action of every loaded module has its bullet (name and description) followed
\* by its example line
AllActionsListed(lines, modules) ==
    \A m \in Range(modules) : \A a \in Range(ModuleDef(m).actions) :
        \E i \in 1..(Len(lines) - 1) :
            /\ lines[i] = <<"  * **">> \o a.name \o <<"**: ">> \o a.description
            /\ lines[i + 1] = <<"    Example: ", TICK>> \o a.example_json \o <<TICK>>

\* C10, amended: when the loaded modules' descriptions are pairwise distinct, the
\* prompt built is the prompt every other load order of the same modules gives, its
\* module lines are in description order, each module's actions are in name order,
\* and each action is listed with its description and example.
C10_PromptOrderIndependent ==
    (phase = "ready" /\ DistinctDescriptions(automation_modules)) =>
        /\ \A p \in LoadOrders(automation_modules) :
              ActionPrompt(p) = all_supported_actions_list_for_llm
        /\ NonDecreasing(HeaderRanks(all_supported_actions_list_for_llm))
        /\ BulletsSorted(all_supported_actions_list_for_llm)
        /\ AllActionsListed(all_supported_actions_list_for_llm, automation_modules)

\* C10: a prompt was built from three modules loaded out of description order
C10_ThreeModulesOutOfOrder ==
    /\ phase = "ready"
    /\ automation_modules = <<"system", "gamma", "alpha">>
    /\ HeaderRanks(all_supported_actions_list_for_llm)
          = <<StrRank("Manages things."), StrRank("Provides gamma data."),
              StrRank(ModuleDef("system").description)>>

\* C10 as stated: the prompt is the same for every load order of the loaded modules.
C10_AnyModulesOrderIndependent ==
    phase = "ready" =>
        \A p \in LoadOrders(automation_modules) :
            ActionPrompt(p) = all_supported_actions_list_for_llm

(***************************************************************************)
(* Claims about _extract_json_from_response (SpecExtract).                 *)
(***************************************************************************)
FencedArrayCase == exShape \in {"fenced", "fenced_notag"} /\ IsList(exVal)

BareObjectCase == exShape = "bare" /\ IsDict(exVal)

\* C6 as stated: a fenced block holding a valid array gives that array, a text that
\* is one JSON object gives the one-element list of that object whatever its field
\* values, and a text with no JSON value in it gives the empty list.
C6_ExtractAsStated ==
    exDone =>
        /\ FencedArrayCase => exOut = exVal
        /\ BareObjectCase => exOut = JList(<<exVal>>)
        /\ exShape = "garbage" => exOut = EmptyList

\* C6, the state the code reaches: the text is the write_file object whose content
\* holds a fenced block, and the result is the array found inside that block
C6_ObjectWithFencedContent ==
    /\ exDone
    /\ exShape = "bare"
    /\ exVal = ObjWriteCode
    /\ exOut = JList(<<JNum("1")>>)

(***************************************************************************)
(* Claims about process_command (Spec).                                    *)
(***************************************************************************)
TurnOver == pc \in {"returned", "raised"}

\* the intents are a list of {"action":"none"} entries only
OnlyNone ==
    /\ IsList(intents)
    /\ intents.items # <<>>
    /\ \A i \in 1..Len(intents.items) :
          IsDict(intents.items[i]) /\ DictGet(intents.items[i], T_action) = JStr(T_none)

\* C1: when parse_intents returned only {"action":"none"} entries, no method of an
\* automation module is invoked in the turn, no exception leaves process_command,
\* and generate_response has been invoked exactly once when the turn is over: once
\* the loop is over and the turn waits for the reply, and not before.
C1_NoneOnlyChatsOnce ==
    (pc # "idle" /\ OnlyNone) =>
        /\ calls = <<>>
        /\ pc # "raised"
        /\ Len(chat_calls) = (IF pc \in {"chatting", "returned"} THEN 1 ELSE 0)

\* C1: a turn on two "none" intents is over, answered by the one conversational call
C1_TwoNoneAnswered ==
    /\ pc = "returned"
    /\ intents = JList(<<ObjNone, ObjNone>>)
    /\ calls = <<>>
    /\ Len(chat_calls) = 1
    /\ response = JStr(ChatReply)
    /\ ~Legacy => conversation_history[Len(conversation_history)]
                      = Message("assistant", JStr(ChatReply))

\* the turn ended at an intent whose action is not "none" and is no key of the map
EndedAtAbsentAction ==
    /\ TurnOver
    /\ Iterable(intents)
    /\ idx \in 1..Len(IterItems(intents))
    /\ IsDict(CurrentIntent)
    /\ CurrentAction # JStr(T_none)
    /\ ~(IsStr(CurrentAction) /\ CurrentAction.s \in DOMAIN supported_actions_map)

\* C2 as stated: whenever the loop reaches an intent whose action is absent from
\* supported_actions_map, process_command returns "Sorry, I don't know how to '<the
\* action with spaces for underscores>'." and no intent from that one on is dispatched.
C2_AbsentActionAnswered ==
    EndedAtAbsentAction =>
        /\ pc = "returned"
        /\ IsStr(CurrentAction)
        /\ response = JStr(<<"Sorry, I don't know how to '">>
                           \o ReplaceUnderscore(CurrentAction.s) \o <<"'.">>)
        /\ \A i \in 1..Len(calls) : calls[i].idx < idx

\* C2, the state the code reaches: the action is null, it is not in the map, and
\* the exception of act.replace has left process_command
C2_NullActionRaises ==
    /\ pc = "raised"
    /\ provider = "gemini"
    /\ intents = JList(<<ObjNullAction>>)
    /\ idx = 1
    /\ calls = <<>>

\* two intents, the first one's method returned normally, the second one names an
\* action that is not in the map
FirstDoneSecondUnsupported ==
    /\ pc = "returned"
    /\ IsList(intents)
    /\ Len(intents.items) = 2
    /\ IsDict(intents.items[2])
    /\ IsStr(DictGet(intents.items[2], T_action))
    /\ DictGet(intents.items[2], T_action) # JStr(T_none)
    /\ DictGet(intents.items[2], T_action).s \notin DOMAIN supported_actions_map
    /\ calls # <<>>
    /\ calls[1].idx = 1
    /\ calls[1].body = "ok"

\* C3: for two intents of which the first succeeds and the second names an
\* unsupported action, the first one's method was invoked exactly once and nothing
\* else was, the files are as that call left them, and the returned text is exactly
\* the unsupported-action message, without a conversational call, and with
\* nothing of the first result in it: neither the result nor any piece of it but
\* the single space between words.
C3_FirstAppliedSecondReported ==
    FirstDoneSecondUnsupported =>
        /\ Len(calls) = 1
        /\ fs = calls[1].fs
        /\ chat_calls = <<>>
        /\ response = JStr(<<"Sorry, I don't know how to '">>
                           \o ReplaceUnderscore(DictGet(intents.items[2], T_action).s)
                           \o <<"'.">>)
        /\ ~Contains(response.s, calls[1].result)
        /\ \A k \in 1..Len(calls[1].result) :
              calls[1].result[k] # SP => ~Contains(response.s, <<calls[1].result[k]>>)

\* C3: create_file made notes.txt, then fly_away was refused
C3_CreatedThenRefused ==
    /\ pc = "returned"
    /\ intents = JList(<<ObjCreate, ObjUnknown>>)
    /\ Len(calls) = 1
    /\ calls[1].result = FILE_CREATED \o <<": ">> \o T_notes
    /\ PathIsFile(fs, T_notes)
    /\ response = JStr(<<"Sorry, I don't know how to '", "fly", SP, "away", "'.">>)

\* the intent at position j names an action that is not in the map
UnsupportedAt(j) ==
    /\ IsDict(IterItems(intents)[j])
    /\ DictGet(IterItems(intents)[j], T_action) # JStr(T_none)
    /\ ~(IsStr(DictGet(IterItems(intents)[j], T_action))
         /\ DictGet(IterItems(intents)[j], T_action).s \in DOMAIN supported_actions_map)

\* C4 as stated: the methods are invoked in the order of the intents, one per
\* intent; a call whose arguments did not match or whose method raised is the last
\* call of the turn; no call is made for an intent after an unsupported one; and the
\* files stay as the last call left them.
C4_OrderedAbortOnFirstFailure ==
    /\ \A i, j \in 1..Len(calls) : i < j => calls[i].idx < calls[j].idx
    /\ \A i \in 1..Len(calls) : calls[i].body # "ok" => i = Len(calls)
    /\ \A i \in 1..Len(calls) : \A j \in 1..(calls[i].idx - 1) : ~UnsupportedAt(j)
    /\ calls # <<>> => fs = calls[Len(calls)].fs

\* C4, the state the code reaches: create_file without filename did not bind, and
\* the next intent's create_file was invoked all the same
C4_InvokedAfterArgumentMismatch ==
    /\ Len(calls) = 2
    /\ calls[1].action = T_create_file
    /\ ~calls[1].ran
    /\ calls[2].body = "ok"
    /\ results = <<<<"[FAIL] Failed to ", "create", SP, "file", ".">>,
                    FILE_CREATED \o <<": ">> \o T_notes>>

(***************************************************************************)
(* Claims about parse_intents followed by process_command (Spec).          *)
(***************************************************************************)
\* every element is a mapping that has an "action" key
ElementsValid(v) ==
    /\ IsList(v)
    /\ \A i \in 1..Len(v.items) : IsDict(v.items[i]) /\ HasKey(v.items[i], T_action)

\* one clarify intent with its prompt
IsClarification(v) ==
    /\ IsList(v)
    /\ Len(v.items) = 1
    /\ IsDict(v.items[1])
    /\ DictGet(v.items[1], T_action) = JStr(T_clarify)
    /\ HasKey(v.items[1], T_prompt)

\* C7 as stated: for every provider and every text of the model, what parse_intents
\* hands to the dispatcher is a list of mappings that each have an action key.
C7_EveryElementValidated ==
    (pc # "idle" /\ llm_reply.kind = "text") => ElementsValid(intents)

\* C7, the state the code reaches: Novita looked at the first element only, the
\* number after it reached the loop, and process_command raised on it
C7_NovitaSecondElementUnchecked ==
    /\ provider = "novita"
    /\ intents = JList(<<ObjNone, JNum("1")>>)
    /\ pc = "raised"
    /\ idx = 2

\* the request failed, the response had another shape, or the text is no JSON
FailedParse ==
    \/ llm_reply.kind \in {"error", "shape"}
    \/ llm_reply = LlmText(<<"hello">>)

\* C8 as stated: after a request error, an unexpected response shape or a text that
\* is no JSON, parse_intents has returned [{"action":"none"}] or a clarification
\* intent, and process_command returns, with the conversational answer in the first
\* case and with the clarification prompt in the second.
C8_FailuresDegrade ==
    (TurnOver /\ FailedParse) =>
        /\ pc = "returned"
        /\ intents = FallbackNone \/ IsClarification(intents)
        /\ intents = FallbackNone =>
              /\ Len(chat_calls) = 1
              /\ response \in {JStr(ChatReply), JStr(ChatApology(provider))}
        /\ IsClarification(intents) => response = DictGet(intents.items[1], T_prompt)

\* C8, the state the code reaches: after a request error Awan's fallback is the
\* action "None", which the dispatcher answers as an unsupported action
C8_AwanCapitalNoneRefused ==
    /\ provider = "awan"
    /\ llm_reply = LlmError
    /\ pc = "returned"
    /\ intents = JList(<<Obj1(T_action, JStr(<<"None">>))>>)
    /\ response = JStr(<<"Sorry, I don't know how to '", "None", "'.">>)
    /\ chat_calls = <<>>

(***************************************************************************)
(* Claims about the failures of a dispatched method (Spec).                *)
(***************************************************************************)
\* the intent's fields do not bind to the parameters of the method called
ArgumentMismatch(c) ==
    /\ MethodOf(c.module, c.method_name).exists
    /\ ~BindsTo(MethodOf(c.module, c.method_name), c.kwargs)

\* C11 as stated: for every loaded module, a call whose arguments do not match the
\* method's parameters is the last call of the turn, and process_command returns
\* "Sorry, I had trouble executing the command. Missing or incorrect arguments for
\* '<action>'."
C11_MismatchAborts ==
    \A i \in 1..Len(calls) :
        ArgumentMismatch(calls[i]) =>
            /\ i = Len(calls)
            /\ pc = "returned"
            /\ response = JStr(<<"Sorry, I had trouble executing the command. Missing or incorrect arguments for '">>
                               \o ReplaceUnderscore(calls[i].action) \o <<"'.">>)

\* C11, the state the code reaches: create_file without filename, wrapped by
\* safe_action, gave its "[FAIL]" text as a result and the turn returned it
C11_MismatchReturnedAsResult ==
    /\ pc = "returned"
    /\ intents = JList(<<ObjCreateNoArg>>)
    /\ Len(calls) = 1
    /\ ArgumentMismatch(calls[1])
    /\ response = JStr(<<"[FAIL] Failed to ", "create", SP, "file", ".">>)

\* the arguments matched and the method's body raised
RaisedInside(c) == c.ran /\ c.body # "ok"

\* C12 as stated: a call whose arguments matched and whose body raised an exception
\* of any type is the last call of the turn, and process_command returns "Sorry, I
\* encountered an error while trying to '<action>'."
C12_ExceptionAborts ==
    \A i \in 1..Len(calls) :
        RaisedInside(calls[i]) =>
            /\ i = Len(calls)
            /\ pc = "returned"
            /\ response = JStr(<<"Sorry, I encountered an error while trying to '">>
                               \o ReplaceUnderscore(calls[i].action) \o <<"'.">>)

\* C12, the state the code reaches: delete_file of a file that is not there raised
\* inside safe_action, and the turn returned the "[FAIL]" text as a result
C12_ExceptionReturnedAsResult ==
    /\ pc = "returned"
    /\ intents = JList(<<ObjDelete>>)
    /\ Len(calls) = 1
    /\ RaisedInside(calls[1])
    /\ response = JStr(<<"[FAIL] Failed to ", "delete", SP, "file", ".">>)

(***************************************************************************)
(* Claims about the answer of a turn and the history (Spec).               *)
(***************************************************************************)
\* the loop went through every intent and every method called returned normally
NoIntentFailed ==
    /\ pc = "returned"
    /\ Iterable(intents)
    /\ idx > Len(IterItems(intents))
    /\ \A i \in 1..Len(calls) : calls[i].body = "ok"

\* the results of calls i.. with a newline between two of them
RECURSIVE ResultsFrom(_)
ResultsFrom(i) ==
    IF i > Len(calls) THEN <<>>
    ELSE IF i = Len(calls) THEN calls[i].result
    ELSE calls[i].result \o <<NL>> \o ResultsFrom(i + 1)

\* what generate_response of the provider p can give
ChatAnswers(p) == {GenerateResponse(p, out) : out \in ChatOutcomes}

\* C13: when no intent of the turn failed, the answer is the results of the calls,
\* in intent order, with newlines between them and without a conversational call;
\* when no method was called (only none intents, or no intent) the answer is what
\* generate_response gave for the user's text, called once and, in the backend that
\* keeps a history, with the whole history: the session's earlier messages and the
\* user's message of this turn (or the empty history, when the window's
\* clear_conversation_history emptied it while the turn was running).
C13_ResultsJoinedOrChat ==
    NoIntentFailed =>
        IF calls # <<>>
        THEN /\ response = JStr(ResultsFrom(1))
             /\ \A i, j \in 1..Len(calls) : i < j => calls[i].idx < calls[j].idx
             /\ chat_calls = <<>>
        ELSE /\ Len(chat_calls) = 1
             /\ chat_calls[1].prompt = user_text
             /\ response \in ChatAnswers(provider)
             /\ (~Legacy /\ chat_calls[1].history # <<>>) =>
                  /\ chat_calls[1].history[Len(chat_calls[1].history)]
                        = Message("user", JStr(user_text))
                  /\ SubText(chat_calls[1].history, 1, Len(chat_calls[1].history) - 1)
                        \in Histories(provider)

\* C13: create_file and foo both returned, and the answer is their two results
C13_TwoResultsJoined ==
    /\ pc = "returned"
    /\ intents = JList(<<ObjCreate, ObjFoo>>)
    /\ Len(calls) = 2
    /\ response = JStr(<<"File", SP, "created", ": ", "notes", ".", "txt", NL, "foo done">>)

IsPrefix(a, b) == Len(a) <= Len(b) /\ \A i \in 1..Len(a) : a[i] = b[i]

DidNotUnderstand ==
    JStr(<<"Sorry, I didn't understand. Did you want me to run a command or chat?">>)

\* this step ends a turn whose parse_intents call raised: process_command returns
\* or raises
ParseRaisedTurnEnds ==
    /\ pc \in {"parsing", "popping"}
    /\ pc' \in {"returned", "raised"}
    /\ llm_reply' = LlmRaise

\* C15 as stated: when the parse_intents call raises, process_command returns the
\* fixed message, no module method is invoked and no chat answer is generated, and
\* the turn ends with the history equal to the history the call found.
C15_ParseRaisedRestoresHistory ==
    [][ParseRaisedTurnEnds =>
          /\ pc' = "returned"
          /\ response' = DidNotUnderstand
          /\ calls' = <<>>
          /\ chat_calls' = <<>>
          /\ conversation_history' = history_before]_vars

\* C15, the state the code reaches: the session had an earlier turn, the history
\* was cleared while the call of parse_intents was under way, the call raised, and
\* process_command returned the fixed message with the history empty: the earlier
\* turn, which the call had found, is not there
C15_ReturnedWithHistoryCleared ==
    /\ pc = "returned"
    /\ llm_reply = LlmRaise
    /\ provider = "gemini"
    /\ response = DidNotUnderstand
    /\ calls = <<>>
    /\ chat_calls = <<>>
    /\ history_before = EarlierTurn
    /\ conversation_history = <<>>

\* C16 as stated: for every intent list that passes _validate_intents_schema,
\* whatever the values of its action keys, and whatever the bound methods do,
\* process_command never raises and what it returns is a string.
C16_ReturnsStringNeverRaises ==
    (pc \notin {"idle", "parsing"} /\ ValidateIntentsSchema(intents)) =>
        /\ pc # "raised"
        /\ pc = "returned" => IsStr(response)

\* C16, the state the code reaches: the list passed the validation, its first
\* intent was dispatched, the second one's action is null, and the exception of
\* act.replace has left process_command
C16_RaisedAfterValidation ==
    /\ pc = "raised"
    /\ provider = "gemini"
    /\ ValidateIntentsSchema(intents)
    /\ Len(intents.items) = 2
    /\ intents.items[2] = ObjNullAction
    /\ idx = 2
    /\ Len(calls) = 1

(***************************************************************************)
(* Claims about none intents inside a list (Spec).                         *)
(***************************************************************************)
NoneAt(k) ==
    /\ IsDict(IterItems(intents)[k])
    /\ DictGet(IterItems(intents)[k], T_action) = JStr(T_none)

SupportedAt(k) ==
    /\ IsDict(IterItems(intents)[k])
    /\ IsStr(DictGet(IterItems(intents)[k], T_action))
    /\ ~NoneAt(k)
    /\ DictGet(IterItems(intents)[k], T_action).s \in DOMAIN supported_actions_map

CalledAt(k) == \E i \in 1..Len(calls) : calls[i].idx = k

ReturnedAt(k) == \E i \in 1..Len(calls) : calls[i].idx = k /\ calls[i].body = "ok"

\* C17: a none intent at position k is never called and never the intent at which
\* the turn ends; a supported intent after it is dispatched whenever every intent
\* before that one was a none intent or a call that returned; and when the loop went
\* through all the intents the answer is the results of the calls alone.
C17_NoneSkippedLoopGoesOn ==
    (pc \notin {"idle", "parsing"} /\ Iterable(intents)) =>
        \A k \in 1..Len(IterItems(intents)) :
            NoneAt(k) =>
                /\ ~CalledAt(k)
                /\ TurnOver => idx # k
                /\ \A j \in (k + 1)..Len(IterItems(intents)) :
                      ( /\ TurnOver
                        /\ SupportedAt(j)
                        /\ \A m \in 1..(j - 1) : NoneAt(m) \/ ReturnedAt(m) )
                      => CalledAt(j)
                /\ (NoIntentFailed /\ calls # <<>>) =>
                      /\ response = JStr(ResultsFrom(1))
                      /\ chat_calls = <<>>

\* C17: the none intent came first and create_file after it was still called; the
\* answer is the result of create_file alone
C17_CreateAfterNone ==
    /\ pc = "returned"
    /\ intents = JList(<<ObjNone, ObjCreate>>)
    /\ Len(calls) = 1
    /\ calls[1].idx = 2
    /\ response = JStr(<<"File", SP, "created", ": ", "notes", ".", "txt">>)

(***************************************************************************)
(* Claims about last_filename of backend.py (Spec).                        *)
(***************************************************************************)
\* this step called a method
Dispatched == Len(calls') = Len(calls) + 1

\* the words stand somewhere in the text: the text is a text, the words, a text
Occurs(words, text) ==
    \E a \in 0..Len(text) : \E b \in a..Len(text) : SubSeq(text, a + 1, b) = words

\* the call returned to the loop with a result holding the sentinel
Reported(c, act, sentinel) ==
    c.kind = "ok" /\ c.action = act /\ Occurs(sentinel, c.result)

\* what the claim says last_filename is after the call c
LastFilenameAfter(c, before) ==
    IF Reported(c, T_create_file, <<"File", SP, "created">>) THEN DictGet(c.kwargs, T_filename)
    ELSE IF Reported(c, T_write_file, <<"File", SP, "written">>) THEN DictGet(c.kwargs, T_filename)
    ELSE IF Reported(c, T_delete_file, <<"File", SP, "deleted">>)
            /\ DictGet(c.kwargs, T_filename) = before THEN JNull
    ELSE before

\* C18: under backend.py, a step that calls no method leaves last_filename as it
\* was; a create_file (write_file) whose result holds "File created" ("File
\* written") sets it to the intent's filename; a delete_file of the current
\* last_filename whose result holds "File deleted" sets it to None; every other
\* call, every call whose result lacks the sentinel and every call that ends the
\* turn leave it as it was. The steps that end a turn do not undo what the earlier
\* intents of the turn have set.
C18_LastFilenameFrame ==
    [][Legacy =>
          IF Dispatched
          THEN last_filename' = LastFilenameAfter(calls'[Len(calls')], last_filename)
          ELSE last_filename' = last_filename]_vars

\* C18: the file "File created.txt" was there, create_file answered that it already
\* exists, a result that holds "File created" in the file's name, and set
\* last_filename to that name; the next intent was not supported and ended the turn,
\* and last_filename is still that name
C18_UpdateKeptAfterAbort ==
    /\ Legacy
    /\ pc = "returned"
    /\ intents = JList(<<ObjCreateAgain, ObjUnknown>>)
    /\ idx = 2
    /\ Len(calls) = 1
    /\ calls[1].result = <<"File already exists: ", "File", SP, "created", ".", "txt">>
    /\ last_filename = JStr(T_file_created)

(***************************************************************************)
(* Claims about TTSModule (SpecTTS).                                       *)
(***************************************************************************)
\* the items put so far, in the order of the puts
ItemsPut == [i \in 1..Len(tts_enqueued) |-> tts_enqueued[i].item]

\* the position of the first sentinel among the items put, or one past the last item
FirstSentinel ==
    IF \E i \in 1..Len(ItemsPut) : ItemsPut[i] = JNull
    THEN CHOOSE i \in 1..Len(ItemsPut) :
            ItemsPut[i] = JNull /\ \A j \in 1..(i - 1) : ItemsPut[j] # JNull
    ELSE Len(ItemsPut) + 1

\* the texts put before the first sentinel
TextsBeforeSentinel == SubSeq(ItemsPut, 1, FirstSentinel - 1)

\* the items the worker has taken from the queue: the utterances spoken and, until
\* it is spoken, the item the worker holds
ItemsTaken ==
    tts_spoken \o
    (IF tts_pc \in {"check", "say", "runAndWait", "endLoop", "done", "died"}
     THEN <<tts_text>> ELSE <<>>)

\* C19: whatever the interleaving of the callers with the worker, the items taken by
\* the worker followed by the items still queued are the items put, in the order of
\* the puts: every text is spoken in that order and once. The engine holds an
\* utterance only between say and the return of runAndWait, and then only the text
\* the worker holds: the worker is at queue.get() with nothing in flight.
C19_SpokenInOrderOnceOneInFlight ==
    /\ ItemsTaken \o tts_queue = ItemsPut
    /\ IsPrefix(tts_spoken, TextsBeforeSentinel)
    /\ tts_pending = (IF tts_pc = "runAndWait" THEN <<tts_text>> ELSE <<>>)

\* C19: two threads have put three texts, one of them while the worker was speaking,
\* and all three are spoken in the order of the puts
C19_TwoCallersSpoken ==
    /\ Len(tts_enqueued) = 3
    /\ tts_enqueued[1].by = "gui"
    /\ tts_enqueued[2].by = "voice"
    /\ tts_spoken = <<JStr(<<"hello">>), JStr(<<"bye">>), JStr(<<"hello">>)>>
    /\ tts_queue = <<>>
    /\ tts_pc = "get"

StopRequested == \E i \in 1..Len(tts_enqueued) : tts_enqueued[i].item = JNull

TtsTerminated == tts_pc \in {"done", "died"}

\* C20: once stop() has put the sentinel the worker thread terminates; when it has
\* terminated, the texts spoken are the texts put before the sentinel, all of them
\* and in order, and they stay so: no text put after the sentinel is spoken, before
\* or after the thread's end.
C20_StopTerminatesWorker ==
    /\ StopRequested ~> TtsTerminated
    /\ [](TtsTerminated => tts_spoken = TextsBeforeSentinel)
    /\ [](IsPrefix(tts_spoken, TextsBeforeSentinel))

\* C20: hello was put before the sentinel and bye after it; the worker has
\* terminated, hello is spoken and bye is left in the queue
C20_TextAfterSentinelLeft ==
    /\ TtsTerminated
    /\ ItemsPut = <<JStr(<<"hello">>), JNull, JStr(<<"bye">>)>>
    /\ tts_spoken = <<JStr(<<"hello">>)>>
    /\ tts_queue = <<JStr(<<"bye">>)>>

(***************************************************************************)
(* Claims about the clarify intents of backend.py (Spec).                  *)
(***************************************************************************)
ClarifyAt(k) ==
    /\ IsDict(intents.items[k])
    /\ DictGet(intents.items[k], T_action) \in {JStr(T_clarify), JStr(T_clarify_file)}

\* the intent's prompt, or the default question of its action
ClarifyAnswer(intent) ==
    IF HasKey(intent, T_prompt) THEN DictGet(intent, T_prompt)
    ELSE IF DictGet(intent, T_action) = JStr(T_clarify)
    THEN JStr(<<"Could you clarify your intent?">>)
    ELSE JStr(<<"Which file did you mean? Please specify the filename.">>)

\* C22 as stated: under backend.py, when the list of intents holds a clarify or a
\* clarify_file intent at any position, no method of a module is called in the turn
\* and process_command returns the prompt of such an intent (the default question
\* when it has none).
C22_ClarifyAnsweredNothingCalled ==
    ( /\ Legacy
      /\ pc \notin {"idle", "parsing"}
      /\ IsList(intents)
      /\ \E k \in 1..Len(intents.items) : ClarifyAt(k) )
    => /\ calls = <<>>
       /\ TurnOver =>
            /\ pc = "returned"
            /\ \E k \in 1..Len(intents.items) :
                  ClarifyAt(k) /\ response = ClarifyAnswer(intents.items[k])

\* C22, the state the code reaches: the clarify intent is the second one, create_file
\* before it was called, and the answer calls clarify an unknown action
C22_ClarifySecondDispatched ==
    /\ Legacy
    /\ pc = "returned"
    /\ intents = JList(<<ObjCreate, ObjClarify>>)
    /\ Len(calls) = 1
    /\ calls[1].action = T_create_file
    /\ response = JStr(<<"Sorry, I don't know how to '", "clarify", "'.">>)

(***************************************************************************)
(* Claims about the chat request (Spec).                                   *)
(***************************************************************************)
\* the messages the provider sends for the chat call c
MessagesOf(c) == ChatMessages(provider, c.prompt, c.history)

\* the positions of the user messages that hold the text
UserMessagesWith(messages, text) ==
    {i \in 1..Len(messages) : messages[i] = Message("user", JStr(text))}

\* C25 as stated: in every chat request of a turn of core/backend.py, the first message is the system
\* prompt, the last one is the user's text of this turn as a user message, and no
\* other message holds it.
C25_UserTextSentOnce ==
    ~Legacy =>
        \A n \in 1..Len(chat_calls) :
            /\ MessagesOf(chat_calls[n])[1].role = "system"
            /\ UserMessagesWith(MessagesOf(chat_calls[n]), user_text)
                  = {Len(MessagesOf(chat_calls[n]))}

\* C25, the state the code reaches: the history given to generate_response already
\* ends with the user's message, and the request holds it twice, one after the other
C25_UserTextSentTwice ==
    /\ provider = "novita"
    /\ pc = "returned"
    /\ Len(chat_calls) = 1
    /\ chat_calls[1].history = Append(EarlierTurn, Message("user", JStr(user_text)))
    /\ Len(MessagesOf(chat_calls[1])) = 5
    /\ UserMessagesWith(MessagesOf(chat_calls[1]), user_text) = {4, 5}

(***************************************************************************)
(* Claims about the end of the loop of core/backend.py (Spec).             *)
(***************************************************************************)
NotSure == JStr(<<"I'm not sure how to respond to that.">>)

\* C30: under core/backend.py, results is non-empty exactly when action_executed is
\* true; process_command never returns "I'm not sure how to respond to that."; and
\* a turn that went through the whole loop returns the joined results, without a
\* chat call, or the answer of its one chat call.
C30_FallbackUnreachable ==
    ~Legacy =>
        /\ (results # <<>>) <=> action_executed
        /\ response # NotSure
        /\ (pc = "returned" /\ Iterable(intents) /\ idx > Len(IterItems(intents))) =>
              IF results # <<>>
              THEN response = JStr(Join(results)) /\ chat_calls = <<>>
              ELSE Len(chat_calls) = 1 /\ response \in ChatAnswers(provider)

\* C30: a turn of core/backend.py went through its two intents, both were called,
\* and the joined results are returned
C30_LoopEndedWithResults ==
    /\ ~Legacy
    /\ pc = "returned"
    /\ intents = JList(<<ObjCreate, ObjWrite>>)
    /\ idx = 3
    /\ action_executed
    /\ Len(results) = 2
    /\ response = JStr(Join(results))

(***************************************************************************)
(* Claims about the shape of the history (Spec).                           *)
(***************************************************************************)
\* user and assistant messages in pairs
InPairs(history) ==
    /\ Len(history) % 2 = 0
    /\ \A i \in 1..Len(history) :
          history[i].role = (IF i % 2 = 1 THEN "user" ELSE "assistant")

\* the history holds the pairs of the earlier turns and then the user's message of
\* this turn: nothing has emptied it since process_command appended the message
HoldsThisTurn(history) ==
    /\ history # <<>>
    /\ history[Len(history)] = Message("user", JStr(user_text))
    /\ InPairs(SubText(history, 1, Len(history) - 1))

\* the step in which process_command ends
TurnEnds == pc \in {"parsing", "popping", "loop", "chatting"} /\ pc' \in {"returned", "raised"}

\* C23 as stated: under core/backend.py, with process_command and
\* clear_conversation_history run one at a time, a turn that found the history in
\* pairs leaves it in pairs: it ends with the pair of that turn, the user's text and
\* the string returned, after the pairs of the earlier turns; a turn whose parse
\* failed has added nothing.
C23_HistoryInPairs ==
    [][(~Legacy /\ TurnEnds /\ HoldsThisTurn(conversation_history)) =>
          /\ InPairs(conversation_history')
          /\ IF llm_reply' = LlmRaise
             THEN Append(conversation_history', Message("user", JStr(user_text)))
                     = conversation_history
             ELSE /\ pc' = "returned"
                  /\ conversation_history'
                        = Append(conversation_history, Message("assistant", response'))]_vars

\* C23, the state the code reaches: act.replace raised for a null action, and the
\* user's message of the turn is left in the history without an answer
C23_UserMessageLeftAlone ==
    /\ provider = "gemini"
    /\ pc = "raised"
    /\ intents = JList(<<ObjNullAction>>)
    /\ conversation_history = Append(EarlierTurn, Message("user", JStr(user_text)))

(***************************************************************************)
(* Claims about the file last_filename names (Spec).                       *)
(***************************************************************************)
\* the calls of this turn that created or wrote a file
CreatedOrWritten ==
    {i \in 1..Len(calls) :
        \/ Reported(calls[i], T_create_file, <<"File", SP, "created">>)
        \/ Reported(calls[i], T_write_file, <<"File", SP, "written">>)}

LastOf(S) == CHOOSE i \in S : \A j \in S : j <= i

\* C29 as stated: under backend.py, a last_filename that is not None names a file
\* that is there (it has not been deleted, renamed or moved away by a dispatched
\* action since), and it is the file of the latest call that created or wrote one.
C29_LastFilenameNamesLiveFile ==
    (Legacy /\ last_filename # JNull) =>
        /\ IsStr(last_filename)
        /\ PathIsFile(fs, last_filename.s)
        /\ CreatedOrWritten # {} =>
              last_filename = DictGet(calls[LastOf(CreatedOrWritten)].kwargs, T_filename)

\* C29, the state the code reaches: create_file made notes.txt, rename_file moved it
\* to new.txt, and last_filename still names notes.txt, which is gone
C29_PointerToRenamedFile ==
    /\ Legacy
    /\ pc = "returned"
    /\ intents = JList(<<ObjCreate, ObjRename>>)
    /\ Len(calls) = 2
    /\ Contains(calls[2].result, <<"File renamed: ">>)
    /\ last_filename = JStr(T_notes)
    /\ ~PathExists(fs, T_notes)

(***************************************************************************)
(* Claims about the constructor of TTSModule (SpecTTS).                    *)
(***************************************************************************)
\* the worker thread can still reach self._engine_ready_event.set()
WorkerOnTheWayToSet == tts_pc \in {"init", "set"}

\* C28 as stated: the constructor of TTSModule always terminates. While __init__ waits
\* on _engine_ready_event, the event is set or the worker thread is still on its way to
\* set it, whatever the outcome of the engine's initialisation.
C28_ConstructorCanReturn ==
    tts_ctor = "wait" => (tts_ready \/ WorkerOnTheWayToSet)

\* C28, the state the code reaches: the initialisation of the engine raised, the worker
\* thread is over, the event is clear and __init__ waits on it for ever
C28_ConstructorBlockedForEver ==
    /\ tts_pc = "init_failed"
    /\ tts_ctor = "wait"
    /\ ~tts_ready
    /\ ~ENABLED NextTTS

(***************************************************************************)
(* SpecGUI: AssistantGUI of ui/gui.py. The handlers of the GUI thread      *)
(* (submit_text, toggle_listening, reenable_ui, clear_console) run one at  *)
(* a time; the threads they start (handle_text_submission, listen_loop)    *)
(* run beside them, and Backend.process_command runs in those threads.     *)
(***************************************************************************)
MaxThreads == 3

\* a worker thread: what it runs, where it is, what its voice.listen() gave, whether
\* is_listening was cleared while it was blocked in voice.listen(), and whether it
\* has called process_command
GuiThread(kind, at) ==
    [kind |-> kind, pc |-> at, cmd |-> "", cancelled |-> FALSE, dispatched |-> FALSE]

HistoryEntry(role, t) == [role |-> role, by |-> t]

\* the outcomes of process_command after line 128: an answer is appended and returned,
\* parse_intents raised and the handler of lines 136-141 runs, or an exception escapes
Outcomes == {"answered", "parse_failed", "raised"}

ThreadIds == 1..Len(gui_threads)

\* the thread is inside Backend.process_command
InFlight(t) == gui_threads[t].pc \in {"append_user", "working", "check_role", "popping"}

\* what no step of the window touches
backendVars == <<loadVars, extractVars, turnVars, ttsVars>>

InitGUI ==
    /\ gui_listening = FALSE
    /\ gui_input = TRUE
    /\ gui_button = TRUE
    /\ gui_threads = <<>>
    /\ gui_reenable = 0
    /\ gui_history = <<>>
    /\ gui_open = TRUE
    /\ gui_pc = "idle"
    /\ LoadIdle
    /\ ExtractIdle
    /\ TurnIdle
    /\ TtsIdle

\* The handlers run in the GUI thread, one at a time; the worker threads run beside
\* it, and nothing is locked: a step is one statement that reads or writes what the
\* threads share (is_listening, the two widgets, the history).

\* submit_text, on Return in the text input: line 232, the input is disabled
SubmitText ==
    /\ gui_open
    /\ gui_pc = "idle"
    /\ gui_input
    /\ Len(gui_threads) < MaxThreads
    /\ gui_input' = FALSE
    /\ gui_pc' = "submit_button"
    /\ UNCHANGED <<gui_open, gui_button, gui_threads, gui_listening, gui_reenable, gui_history,
                   backendVars>>

\* submit_text, line 234: the listen button is disabled
SubmitDisablesButton ==
    /\ gui_pc = "submit_button"
    /\ gui_button' = FALSE
    /\ gui_pc' = "submit_thread"
    /\ UNCHANGED <<gui_open, gui_input, gui_threads, gui_listening, gui_reenable, gui_history,
                   backendVars>>

\* submit_text, line 239: handle_text_submission is started in a thread of its own
SubmitStartsThread ==
    /\ gui_pc = "submit_thread"
    /\ gui_threads' = Append(gui_threads, GuiThread("submit", "call"))
    /\ gui_pc' = "idle"
    /\ UNCHANGED <<gui_open, gui_input, gui_button, gui_listening, gui_reenable, gui_history,
                   backendVars>>

\* start_listening, line 249: the flag is set
StartListening ==
    /\ Len(gui_threads) < MaxThreads
    /\ gui_listening' = TRUE
    /\ gui_pc' = "start_input"
    /\ UNCHANGED <<gui_open, gui_input, gui_button, gui_threads, gui_reenable, gui_history,
                   backendVars>>

\* start_listening, line 251: the input is disabled
StartDisablesInput ==
    /\ gui_pc = "start_input"
    /\ gui_input' = FALSE
    /\ gui_pc' = "start_thread"
    /\ UNCHANGED <<gui_open, gui_button, gui_threads, gui_listening, gui_reenable, gui_history,
                   backendVars>>

\* start_listening, lines 253-254: listen_loop is started in a thread of its own
StartStartsThread ==
    /\ gui_pc = "start_thread"
    /\ gui_threads' = Append(gui_threads, GuiThread("listen", "while"))
    /\ gui_pc' = "idle"
    /\ UNCHANGED <<gui_open, gui_input, gui_button, gui_listening, gui_reenable, gui_history,
                   backendVars>>

\* the threads that are blocked in voice.listen() are the ones a stop cancels
Cancel(threads) ==
    [t \in DOMAIN threads |->
        IF threads[t].kind = "listen" /\ threads[t].pc = "listening"
        THEN [threads[t] EXCEPT !.cancelled = TRUE]
        ELSE threads[t]]

\* stop_listening called in the GUI thread, line 257: the flag is cleared
StopListening ==
    /\ gui_listening' = FALSE
    /\ gui_threads' = Cancel(gui_threads)
    /\ gui_pc' = "stop_input"
    /\ UNCHANGED <<gui_open, gui_input, gui_button, gui_reenable, gui_history, backendVars>>

\* stop_listening, line 259: the input is enabled
StopEnablesInput ==
    /\ gui_pc = "stop_input"
    /\ gui_input' = TRUE
    /\ gui_pc' = "stop_button"
    /\ UNCHANGED <<gui_open, gui_button, gui_threads, gui_listening, gui_reenable, gui_history,
                   backendVars>>

\* stop_listening, line 261: the listen button is enabled
StopEnablesButton ==
    /\ gui_pc = "stop_button"
    /\ gui_button' = TRUE
    /\ gui_pc' = "idle"
    /\ UNCHANGED <<gui_open, gui_input, gui_threads, gui_listening, gui_reenable, gui_history,
                   backendVars>>

\* toggle_listening, on a click of the listen button
ToggleListening ==
    /\ gui_open
    /\ gui_pc = "idle"
    /\ gui_button
    /\ IF ~gui_listening THEN StartListening ELSE StopListening

\* reenable_ui, the slot of reenable_input: line 295, the input is enabled
ReenableUi ==
    /\ gui_open
    /\ gui_pc = "idle"
    /\ gui_reenable > 0
    /\ gui_reenable' = gui_reenable - 1
    /\ gui_input' = TRUE
    /\ gui_pc' = "reenable_button"
    /\ UNCHANGED <<gui_open, gui_button, gui_listening, gui_threads, gui_history, backendVars>>

\* reenable_ui, line 297: the listen button is enabled
ReenableEnablesButton ==
    /\ gui_pc = "reenable_button"
    /\ gui_button' = TRUE
    /\ gui_pc' = "idle"
    /\ UNCHANGED <<gui_open, gui_input, gui_listening, gui_threads, gui_reenable, gui_history,
                   backendVars>>

\* clear_console, on a click of Clear Console, a button that is never disabled:
\* backend.clear_conversation_history() rebinds the history to an empty list
ClearConsole ==
    /\ gui_open
    /\ gui_pc = "idle"
    /\ gui_history # <<>>
    /\ gui_history' = <<>>
    /\ UNCHANGED <<gui_open, gui_pc, gui_listening, gui_input, gui_button, gui_threads, gui_reenable,
                   backendVars>>

\* closeEvent, line 332: the flag is cleared without a widget being enabled; the GUI
\* thread then waits in listen_thread.join(1) while that thread is alive
CloseEvent ==
    /\ gui_open
    /\ gui_pc = "idle"
    /\ gui_listening' = FALSE
    /\ gui_threads' = Cancel(gui_threads)
    /\ gui_pc' = "close_join"
    /\ UNCHANGED <<gui_open, gui_input, gui_button, gui_reenable, gui_history, backendVars>>

\* closeEvent, lines 333-334: the wait is over, after a second at the latest, and
\* the event is accepted: the window is gone, its handlers run no more, and the
\* worker threads, daemon threads, run on only until the process ends
CloseAccepts ==
    /\ gui_pc = "close_join"
    /\ gui_open' = FALSE
    /\ gui_pc' = "idle"
    /\ UNCHANGED <<gui_listening, gui_input, gui_button, gui_threads, gui_reenable, gui_history,
                   backendVars>>

\* the handler that the GUI thread is in goes on
GuiHandlerStep ==
    \/ SubmitDisablesButton
    \/ SubmitStartsThread
    \/ StartDisablesInput
    \/ StartStartsThread
    \/ StopEnablesInput
    \/ StopEnablesButton
    \/ ReenableEnablesButton
    \/ CloseAccepts

\* the thread t moves on
Goto(t, at) == gui_threads' = [gui_threads EXCEPT ![t].pc = at]

\* listen_loop: while self.is_listening
ListenWhile(t) ==
    /\ gui_threads[t].pc = "while"
    /\ Goto(t, IF gui_listening THEN "listening" ELSE "done")
    /\ UNCHANGED <<gui_open, gui_pc, gui_listening, gui_input, gui_button, gui_reenable, gui_history,
                   backendVars>>

\* what voice.listen() gives: the text it recognised, or None after its timeout or
\* for audio it did not understand
Heard == {"text", "None"}

\* cmd = self.voice.listen() returns
ListenReturns(t) ==
    /\ gui_threads[t].pc = "listening"
    /\ \E cmd \in Heard :
          gui_threads' = [gui_threads EXCEPT ![t].pc = "check", ![t].cmd = cmd]
    /\ UNCHANGED <<gui_open, gui_pc, gui_listening, gui_input, gui_button, gui_reenable, gui_history,
                   backendVars>>

\* if not self.is_listening: break; then self.signals.update_text.emit(cmd, True),
\* the signal being pyqtSignal(str, bool): for None emit raises TypeError and the
\* thread is over, with is_listening and the widgets as they are
ListenCheck(t) ==
    /\ gui_threads[t].pc = "check"
    /\ Goto(t, IF ~gui_listening THEN "done"
               ELSE IF gui_threads[t].cmd = "None" THEN "died"
               ELSE "call")
    /\ UNCHANGED <<gui_open, gui_pc, gui_listening, gui_input, gui_button, gui_reenable, gui_history,
                   backendVars>>

\* response = self.backend.process_command(...): the call is made
CallProcessCommand(t) ==
    /\ gui_threads[t].pc = "call"
    /\ gui_threads' = [gui_threads EXCEPT ![t].pc = "append_user", ![t].dispatched = TRUE]
    /\ UNCHANGED <<gui_open, gui_pc, gui_listening, gui_input, gui_button, gui_reenable, gui_history,
                   backendVars>>

\* process_command: self.conversation_history.append({"role": "user", ...})
AppendUser(t) ==
    /\ gui_threads[t].pc = "append_user"
    /\ gui_history' = Append(gui_history, HistoryEntry("user", t))
    /\ Goto(t, "working")
    /\ UNCHANGED <<gui_open, gui_pc, gui_listening, gui_input, gui_button, gui_reenable, backendVars>>

\* process_command from parse_intents on: the answer is appended and returned; an
\* exception escapes; or parse_intents raised and line 139 reads the history a first
\* time, "if self.conversation_history", which for an empty one is the return of
\* line 141
Finish(t, outcome) ==
    /\ gui_threads[t].pc = "working"
    /\ CASE outcome = "answered" ->
              /\ gui_history' = Append(gui_history, HistoryEntry("assistant", t))
              /\ Goto(t, "returned")
         [] outcome = "parse_failed" ->
              /\ gui_history' = gui_history
              /\ Goto(t, IF gui_history = <<>> THEN "returned" ELSE "check_role")
         [] outcome = "raised" ->
              /\ gui_history' = gui_history
              /\ Goto(t, "died")
    /\ UNCHANGED <<gui_open, gui_pc, gui_listening, gui_input, gui_button, gui_reenable, backendVars>>

\* process_command from parse_intents on, with every outcome
ProcessCommandEnds(t) == \E outcome \in Outcomes : Finish(t, outcome)

\* line 139 reads the history a second time, self.conversation_history[-1]["role"]
\* == "user": IndexError for a list that is empty by now, the pop of line 140 next
\* for a user's entry, the return of line 141 for another one
CheckLastRole(t) ==
    /\ gui_threads[t].pc = "check_role"
    /\ Goto(t, IF gui_history = <<>> THEN "died"
               ELSE IF gui_history[Len(gui_history)].role = "user" THEN "popping"
               ELSE "returned")
    /\ UNCHANGED <<gui_open, gui_pc, gui_listening, gui_input, gui_button, gui_reenable, gui_history,
                   backendVars>>

\* a pop that empties the list
PopEverything(t) ==
    /\ gui_threads[t].pc = "popping"
    /\ IF gui_history = <<>>
       THEN /\ gui_history' = gui_history
            /\ Goto(t, "died")
       ELSE /\ gui_history' = <<>>
            /\ Goto(t, "returned")
    /\ UNCHANGED <<gui_open, gui_pc, gui_listening, gui_input, gui_button, gui_reenable, backendVars>>

\* line 140, self.conversation_history.pop(): the last entry of the list as it is
\* now is removed, whose ever it is; IndexError for an empty list
PopLast(t) ==
    /\ gui_threads[t].pc = "popping"
    /\ IF gui_history = <<>>
       THEN /\ gui_history' = gui_history
            /\ Goto(t, "died")
       ELSE /\ gui_history' = SubText(gui_history, 1, Len(gui_history) - 1)
            /\ Goto(t, "returned")
    /\ UNCHANGED <<gui_open, gui_pc, gui_listening, gui_input, gui_button, gui_reenable, backendVars>>

\* handle_text_submission after the call: self.signals.reenable_input.emit(), which
\* queues the signal for the GUI thread
SubmitAfterReturn(t) ==
    /\ gui_threads[t].kind = "submit"
    /\ gui_threads[t].pc = "returned"
    /\ gui_reenable' = gui_reenable + 1
    /\ Goto(t, "done")
    /\ UNCHANGED <<gui_open, gui_pc, gui_listening, gui_input, gui_button, gui_history, backendVars>>

\* listen_loop after the call: self.stop_listening(), called in the listen thread;
\* its line 257 clears the flag
ListenAfterReturn(t) ==
    /\ gui_threads[t].kind = "listen"
    /\ gui_threads[t].pc = "returned"
    /\ gui_listening' = FALSE
    /\ gui_threads' = [Cancel(gui_threads) EXCEPT ![t].pc = "stop_input"]
    /\ UNCHANGED <<gui_open, gui_pc, gui_input, gui_button, gui_reenable, gui_history, backendVars>>

\* stop_listening in the listen thread, line 259: the input is enabled
ListenStopEnablesInput(t) ==
    /\ gui_threads[t].pc = "stop_input"
    /\ gui_input' = TRUE
    /\ Goto(t, "stop_button")
    /\ UNCHANGED <<gui_open, gui_pc, gui_listening, gui_button, gui_reenable, gui_history,
                   backendVars>>

\* stop_listening in the listen thread, line 261: the listen button is enabled; then
\* the break of line 279
ListenStopEnablesButton(t) ==
    /\ gui_threads[t].pc = "stop_button"
    /\ gui_button' = TRUE
    /\ Goto(t, "done")
    /\ UNCHANGED <<gui_open, gui_pc, gui_listening, gui_input, gui_reenable, gui_history,
                   backendVars>>

\* a step of a worker thread
GuiThreadStep ==
    \E t \in ThreadIds :
        \/ ListenWhile(t)
        \/ ListenReturns(t)
        \/ ListenCheck(t)
        \/ CallProcessCommand(t)
        \/ AppendUser(t)
        \/ ProcessCommandEnds(t)
        \/ CheckLastRole(t)
        \/ PopLast(t)
        \/ SubmitAfterReturn(t)
        \/ ListenAfterReturn(t)
        \/ ListenStopEnablesInput(t)
        \/ ListenStopEnablesButton(t)

NextGUI ==
    \/ SubmitText
    \/ ToggleListening
    \/ ReenableUi
    \/ ClearConsole
    \/ CloseEvent
    \/ GuiHandlerStep
    \/ GuiThreadStep

\* while the window is open the GUI thread goes on with the handler it is in, the
\* worker threads run and their calls return, and Qt delivers the queued signals.
\* What the user does is up to the user.
SpecGUI ==
    /\ InitGUI
    /\ [][NextGUI]_vars
    /\ WF_vars(GuiHandlerStep)
    /\ WF_vars(gui_open /\ GuiThreadStep)
    /\ WF_vars(ReenableUi)

(***************************************************************************)
(* Claims about the window and its worker threads (SpecGUI).               *)
(***************************************************************************)
InFlightThreads == {t \in ThreadIds : InFlight(t)}

\* C21 as stated: the window never has two process_command calls in flight at once
C21_OneTurnInFlight == Cardinality(InFlightThreads) <= 1

\* C21, the state the code reaches: a voice command is being processed in the listen
\* thread, Stop Listening has enabled the input again, and a typed command is being
\* processed in a submit thread at the same time
C21_TwoTurnsInFlight ==
    \E t, u \in ThreadIds :
        /\ gui_threads[t].kind = "listen"
        /\ gui_threads[u].kind = "submit"
        /\ gui_threads[t].pc = "working"
        /\ gui_threads[u].pc = "working"

\* the roles alternate and the first is user
WellFormed(h) ==
    \A i \in 1..Len(h) : h[i].role = (IF i % 2 = 1 THEN "user" ELSE "assistant")

\* C24 as stated: whenever no turn is in flight the history is well formed, Clear
\* Console during a turn included: no assistant entry is without its user entry
C24_HistoryWellFormedAtRest == (InFlightThreads = {}) => WellFormed(gui_history)

\* C24, the state the code reaches: with one turn only, Clear Console ran between
\* the turn's two appends and the history holds the assistant's entry alone
C24_AssistantWithoutUser ==
    /\ Len(gui_threads) = 1
    /\ gui_threads[1].pc = "done"
    /\ gui_history = <<HistoryEntry("assistant", 1)>>

\* a step of clear_conversation_history: the history is emptied, and no worker
\* thread has moved
HistoryCleared ==
    /\ gui_history' = <<>>
    /\ gui_threads' = gui_threads

\* the pop in the handler of a raising parse_intents: a worker thread leaves the
\* pop and the history has lost its last entry
LastEntryPopped ==
    \E t \in ThreadIds :
        /\ gui_threads[t].pc = "popping"
        /\ gui_threads'[t].pc = "returned"
        /\ gui_history # <<>>
        /\ gui_history' = SubSeq(gui_history, 1, Len(gui_history) - 1)

\* C14 as stated: every step of process_command leaves the history it found as a
\* prefix of the history it leaves, and only clear_conversation_history removes
\* entries, leaving the history empty.
C14_AppendOnlyButClear ==
    [][IsPrefix(gui_history, gui_history') \/ HistoryCleared]_vars

\* C14, amended: every step leaves the history it found as a prefix of the history
\* it leaves, except clear_conversation_history, which empties it, and the pop in
\* the handler of a raising parse_intents, which removes the last entry of the
\* history and nothing else, whichever turn has appended that entry.
C14_AppendOnlyButClearAndPop ==
    [][\/ IsPrefix(gui_history, gui_history')
       \/ HistoryCleared
       \/ LastEntryPopped]_vars

\* C14: two turns ran side by side and the history was never cleared; the first
\* turn's parse_intents raised and its pop removed the last entry, which was the
\* second turn's answer: both turns are over and the history holds the two user
\* messages
C14_OtherTurnsAnswerPopped ==
    /\ Len(gui_threads) = 2
    /\ \A t \in ThreadIds : gui_threads[t].pc \in {"returned", "done"}
    /\ gui_history = <<HistoryEntry("user", 1), HistoryEntry("user", 2)>>

\* a submit thread that has not ended
SubmitRunning ==
    \E t \in ThreadIds : gui_threads[t].kind = "submit" /\ gui_threads[t].pc \notin {"done", "died"}

\* C26 as stated: after submit_text the input is re-enabled in the end, whatever the
\* turn's outcome. As long as the window is open, the GUI thread is in its event loop
\* (between two handlers) and the input and the listen button are both disabled, the
\* submit thread is still running or its reenable_input signal is queued.
C26_DisabledInputWillBeReenabled ==
    (gui_open /\ gui_pc = "idle" /\ ~gui_input /\ ~gui_button) =>
        (SubmitRunning \/ gui_reenable > 0)

\* C26, the state the code reaches: process_command raised in the submit thread, no
\* signal was emitted, every thread is over and both widgets stay disabled
C26_InputDisabledForEver ==
    /\ \E t \in ThreadIds : gui_threads[t].kind = "submit" /\ gui_threads[t].pc = "died"
    /\ \A t \in ThreadIds : gui_threads[t].pc \in {"done", "died"}
    /\ gui_open
    /\ ~gui_input
    /\ ~gui_button
    /\ gui_reenable = 0
    /\ gui_pc = "idle"
    /\ ~ENABLED (SubmitText \/ ToggleListening \/ ReenableUi \/ GuiThreadStep)

\* C27 as stated: a listen thread whose session was stopped while it was blocked in
\* voice.listen() never calls process_command
C27_CancelledThreadNeverDispatches ==
    \A t \in ThreadIds : gui_threads[t].cancelled => ~gui_threads[t].dispatched

\* C27, the state the code reaches: Stop and then Start were clicked while the first
\* listen thread was blocked; it found is_listening set again and processes a command
\* beside the thread of the new session
C27_CancelledThreadDispatched ==
    \E t, u \in ThreadIds :
        /\ t < u
        /\ gui_threads[t].kind = "listen"
        /\ gui_threads[u].kind = "listen"
        /\ gui_threads[t].cancelled
        /\ gui_threads[t].pc = "working"
        /\ gui_threads[u].pc = "listening"

====
